---- MODULE Spec2Model ----
(***************************************************************************)
(* Model of the OCR + LLM pipeline of ocr-llm-processor2.                  *)
(*                                                                         *)
(* One upload runs handleFileUpload (App.js): processWithAzurePython       *)
(* (services/azureServicePython.js) is tried first, processDocumentWithAzure*)
(* is the fallback, then the extracted text goes to processWithAzureOpenAI. *)
(* JavaScript runs each stretch of code between two awaits atomically, so  *)
(* every action below is one such stretch: it starts when an awaited       *)
(* promise settles (HTTP response, timer, file read) and runs up to the    *)
(* next await, every catch handler on the way included.                    *)
(*                                                                         *)
(* An optional value (null / undefined / '' in the source) is a sequence   *)
(* of length 0 or 1.                                                       *)
(***************************************************************************)
EXTENDS Integers, Sequences, FiniteSets, TLC

\* ------------------------------------------------------------------ bounds
\* Number of uploads the user starts in one behaviour.
MaxUploads == 2
\* Longest OCR text enumerated character by character.
MaxShortText == 2
\* The long OCR texts have MAX_OCR_LENGTH - 1 .. MAX_OCR_LENGTH + MaxOverrun
\* characters.
MaxOverrun == 2
\* Largest rowIndex and columnIndex of a table cell.
MaxIndex == 1
\* Number of uploads in the behaviours checked for termination.
MaxFairUploads == 1

\* ------------------------------------------------------- program constants
\* pollForResult: const maxRetries = 60
PyMaxRetries == 60
\* azureService.js processDocumentWithAzure: const maxRetries = 30
StdMaxRetries == 30
\* llmService.js.new processAnalysisResponse: const maxRetries = 60
NewMaxRetries == 60
\* llmService.js processWithAzureOpenAI: const maxRetries = 2
LlmMaxRetries == 2
\* llmService.js processWithAzureOpenAI: const MAX_OCR_LENGTH = 3000
MAX_OCR_LENGTH == 3000

\* processWithAzurePython: the candidate list, in the order of the source.
\* version is the api-version date as a number (2021-09-30 -> 20210930).
apiVersions ==
  << [path |-> "formrecognizer/v2.1/custom/models", version |-> 20210930, isCustomPath |-> TRUE],
     [path |-> "formrecognizer/custom/models", version |-> 20210930, isCustomPath |-> TRUE],
     [path |-> "formrecognizer/documentModels", version |-> 20220831, isCustomPath |-> FALSE],
     [path |-> "documentintelligence/documentModels", version |-> 20230731, isCustomPath |-> FALSE] >>

\* llmService.js.new processDocumentWithAzure: its candidate list.
apiFormats ==
  << [apiUrl |-> "documentintelligence/documentModels", apiVersion |-> 20230731],
     [apiUrl |-> "formrecognizer/documentModels", apiVersion |-> 20230731],
     [apiUrl |-> "formrecognizer/documentModels", apiVersion |-> 20220831],
     [apiUrl |-> "formrecognizer/custom/models", apiVersion |-> 20210930],
     [apiUrl |-> "formrecognizer/v2.1/custom/models", apiVersion |-> 20210930] >>

\* ------------------------------------------------------------ input domains
\* Which file provides './services/azureService': the current azureService.js
\* or the replacement kept next to it (llmService.js.new, which holds the
\* multi-candidate processDocumentWithAzure and processAnalysisResponse).
ServiceFiles == {"azureService.js", "llmService.js.new"}

\* azureConfig {endpoint, apiKey}: TRUE = a non-empty value is present.
AzureConfigs ==
  { [endpoint |-> TRUE, apiKey |-> TRUE],
    [endpoint |-> FALSE, apiKey |-> TRUE],
    [endpoint |-> TRUE, apiKey |-> FALSE] }

\* llmConfig {endpoint, apiKey, deploymentName}: TRUE = present.
LlmConfigs ==
  { [endpoint |-> TRUE, apiKey |-> TRUE, deploymentName |-> TRUE],
    [endpoint |-> FALSE, apiKey |-> TRUE, deploymentName |-> TRUE],
    [endpoint |-> TRUE, apiKey |-> FALSE, deploymentName |-> TRUE],
    [endpoint |-> TRUE, apiKey |-> TRUE, deploymentName |-> FALSE] }

\* Outcome of a submit POST: 2xx with / without the operation-location
\* header, a non-2xx status (axios rejects), no response at all.
PostResponses == {"ok", "noheader", "non2xx", "network"}

\* Outcome of a polling GET: the status field of the body, or a rejected
\* request ("geterr").  "notStarted" stands for any status other than
\* running / succeeded / failed.
GetResponses == {"running", "notStarted", "succeeded", "failed", "geterr"}

\* analyzeResult of a succeeded job in the upload pipeline: content (full
\* text) and paragraphs, each missing or present; no tables, no documents.
Contents == { <<>>, << << "C" >> >> }
Paragraphs == { <<>>, << << [content |-> << "P" >>] >> >> }

\* message.content of a choice of a chat-completion response.
Completions == {"M1", "M2"}

\* Outcome of the chat-completion POST: the HTTP status, or a request that
\* got no response.
LlmResponses == {"200", "429", "401", "404", "500", "noresponse"}

\* response.data of a 200 answer: choices is missing (<<>>) or a list of
\* message contents.
ResponseData ==
  { [choices |-> <<>>],
    [choices |-> << <<>> >>],
    [choices |-> << << "M1" >> >>],
    [choices |-> << << "M2", "M1" >> >>] }

VARIABLES
  azureServiceFile,   \* which file backs './services/azureService'
  azureConfig,        \* App state azureConfig
  llmConfig,          \* App state llmConfig as read by the running upload
  promptTemplate,     \* App state promptTemplate as read by it (TRUE: non-empty)
  isProcessing,       \* App state
  error,              \* App state error: <<>> is ''
  ocrResult,          \* App state ocrResult: <<>> is null
  llmResult,          \* App state llmResult: <<>> is ''
  uploads,            \* uploads started so far
  pc,                 \* the await the running upload is suspended at
  api,                \* index of the candidate of the running for-of loop
  retryCount,         \* pollForResult.retryCount
  retries,            \* retries of processDocumentWithAzure / processAnalysisResponse
  complete,           \* complete of the same loops
  lastError,          \* lastError of the running orchestrator
  operationLocation,  \* operationLocation of the running call (0: undefined)
  thrown,             \* rejection value of the call that just ended
  returned,           \* resolution value of the service call that just ended
  posts,              \* log: candidates POSTed by the running service call
  outcomes,           \* log: failure kinds of processWithAzurePython's candidates
  attempts,           \* log: submit POSTs of this upload (job ids are attempt numbers)
  getsJob,            \* log: GETs issued by the running polling loop
  getTarget,          \* log: location of the last GET (0: no GET yet)
  waits,              \* log: timer waits of the running polling loop
  sawOther,           \* log: the running loop got a status other than running
  succeededAt,        \* log: number of the GET that returned succeeded (0: none)
  failedAt,           \* log: number of the GET that returned failed (0: none)
  raised,             \* log: errors raised in this upload (an error's seq)
  nActive,            \* log: jobs of this upload submitted and not reported terminal
  failedSeen,         \* log: a job of this upload reported status failed
  lastPost,           \* log: answer to the last submit POST of the running call
  lastStatus,         \* log: answer to the last GET of the running loop ("": none)
  llmRetryCount,      \* processWithAzureOpenAI.retryCount
  llmReturned,        \* resolution value of processWithAzureOpenAI
  llmPosts,           \* log: chat-completion POSTs of this upload
  llmWaits,           \* log: 90 s backoff waits of this upload
  llmAnswers,         \* log: answers to the chat-completion POSTs, in order
  llmData,            \* log: response.data of the last 200 answer
  ocrText,            \* processWithAzureOpenAI argument ocrText
  prompt,             \* processWithAzureOpenAI argument prompt
  limitedOcrText,     \* processWithAzureOpenAI.limitedOcrText (<<>>: not yet set)
  fullPrompt,         \* processWithAzureOpenAI.fullPrompt (<<>>: not yet set)
  apiResponse,        \* argument of an extractor (<<>>: null)
  extractedText       \* outcome of the extractor call (<<>>: not yet called)

vars == << azureServiceFile, azureConfig, llmConfig, promptTemplate,
           isProcessing, error, ocrResult, llmResult, uploads, pc, api,
           retryCount, retries, complete, lastError, operationLocation,
           thrown, returned, posts, outcomes, attempts, getsJob, getTarget,
           waits, sawOther, succeededAt, failedAt, raised, nActive,
           failedSeen, lastPost, lastStatus, llmRetryCount, llmReturned, llmPosts,
           llmWaits, llmAnswers, llmData, ocrText, prompt, limitedOcrText,
           fullPrompt, apiResponse, extractedText >>

cfgVars == << azureServiceFile, azureConfig >>
appVars == << isProcessing, error, ocrResult, llmResult >>
llmVars == << llmConfig, promptTemplate, llmRetryCount, llmReturned,
             llmPosts, llmWaits, llmAnswers, llmData >>
loopVars == << retryCount, retries, complete >>
ctlVars == << api, lastError, thrown, raised, outcomes >>
pollLog == << getsJob, getTarget, waits, sawOther, succeededAt, failedAt,
             lastStatus >>
jobLog == << nActive, failedSeen >>
\* The arguments and locals of the string functions, which the pipeline
\* above passes through without looking into them.
promptVars == << ocrText, prompt, limitedOcrText, fullPrompt >>
extractVars == << apiResponse, extractedText >>
textVars == << promptVars, extractVars >>
\* Every variable of the upload pipeline but pc.
pipeVars == << cfgVars, appVars, llmVars, loopVars, ctlVars, pollLog, jobLog,
              lastPost, uploads, operationLocation, returned, posts,
              attempts >>

\* ------------------------------------------------------------------ errors
\* new Error(message) or an axios rejection: kind is the message of the
\* innermost error, seq its number among the errors raised in this upload,
\* wrap the message prefixes added by the catch blocks that rethrew it,
\* innermost first.
Err(kind, seq) == [kind |-> kind, seq |-> seq, wrap |-> <<>>]

\* new Error(`${prefix}: ${e.message}`)
Wrap(e, prefix) == [e EXCEPT !.wrap = Append(@, prefix)]

\* Fault variant of PyExhausted: lastError itself is rethrown instead of the
\* "all candidates failed" error.
PyExhausted_RethrowsLastError(le) == Wrap(le, "py-error")

\* part_000 164-168: `ドキュメント処理に失敗しました: ${lastError?.message}`
\* ("py-all-failed"), rethrown by the outer catch as
\* `ドキュメント処理中にエラーが発生しました: ...` ("py-error").
PyExhausted(le) == Wrap(Wrap(le, "py-all-failed"), "py-error")

\* llmService.js.new 718-722: `Azure OCR処理に失敗しました: ${lastError?.message}`
\* ("new-all-failed"), rethrown as `Azure OCR処理中にエラーが発生しました: ...`
\* ("std-error", the same prefix as azureService.js line 75).
NewExhausted(le) == Wrap(Wrap(le, "new-all-failed"), "std-error")

\* ----------------------------------------------------------------- strings
\* A JavaScript string is the sequence of its characters.  A character
\* outside printable ASCII is written as its code point ("U+8868"), and so
\* are the backtick ("U+0060") and the apostrophe ("U+0027").

\* '{{OCR_RESULT}}'
Placeholder ==
  << "{", "{", "O", "C", "R", "_", "R", "E", "S", "U", "L", "T", "}", "}" >>

\* "\n... [テキストが長すぎるため制限されました]" (llmService.js 33)
TruncationMarker ==
  << "\n", ".", ".", ".", " ", "[", "U+30C6", "U+30AD", "U+30B9", "U+30C8",
     "U+304C", "U+9577", "U+3059", "U+304E", "U+308B", "U+305F", "U+3081",
     "U+5236", "U+9650", "U+3055", "U+308C", "U+307E", "U+3057", "U+305F",
     "]" >>

\* Array.prototype.join on a list of strings.
RECURSIVE Join(_, _)
Join(strs, sep) ==
  IF strs = <<>> THEN <<>>
  ELSE IF Len(strs) = 1 THEN strs[1]
  ELSE strs[1] \o sep \o Join(Tail(strs), sep)

\* The places where pat occurs in str.
Occurrences(str, pat) ==
  { i \in 1..(Len(str) - Len(pat) + 1) : SubSeq(str, i, i + Len(pat) - 1) = pat }

\* String.prototype.indexOf, counting from 1 (0: not found).
indexOf(str, pat) ==
  LET at == Occurrences(str, pat)
  IN IF at = {} THEN 0 ELSE CHOOSE i \in at : \A j \in at : i <= j

\* GetSubstitution of String.prototype.replace for a string pattern (no
\* capture groups): in the replacement text $$ stands for $, $& for the
\* matched text, $` for the text before the match and $' for the text after
\* it; any other $ is literal.
RECURSIVE GetSubstitution(_, _, _, _)
GetSubstitution(matched, before, after, replacement) ==
  LET dollars == { i \in 1..Len(replacement) : replacement[i] = "$" }
  IN IF dollars = {}
       THEN replacement
       ELSE LET i == CHOOSE k \in dollars : \A j \in dollars : k <= j
                head == SubSeq(replacement, 1, i - 1)
                rest(k) == SubSeq(replacement, i + k, Len(replacement))
                sub(r) == GetSubstitution(matched, before, after, r)
            IN IF i = Len(replacement)
                 THEN replacement
                 ELSE CASE replacement[i + 1] = "$" ->
                             head \o << "$" >> \o sub(rest(2))
                        [] replacement[i + 1] = "&" ->
                             head \o matched \o sub(rest(2))
                        [] replacement[i + 1] = "U+0060" ->
                             head \o before \o sub(rest(2))
                        [] replacement[i + 1] = "U+0027" ->
                             head \o after \o sub(rest(2))
                        [] OTHER ->
                             head \o << "$" >> \o sub(rest(1))

\* String.prototype.replace(searchValue, replaceValue) with two strings: the
\* first occurrence only.
replace(str, searchValue, replaceValue) ==
  LET pos == indexOf(str, searchValue)
  IN IF pos = 0
       THEN str
       ELSE LET before == SubSeq(str, 1, pos - 1)
                after == SubSeq(str, pos + Len(searchValue), Len(str))
            IN before \o GetSubstitution(searchValue, before, after, replaceValue)
                      \o after

\* Fault variant of LimitOcrText: off by one (>=).
LimitOcrText_OffByOne(text) ==
  IF Len(text) >= MAX_OCR_LENGTH
    THEN SubSeq(text, 1, MAX_OCR_LENGTH) \o TruncationMarker
    ELSE text

\* llmService.js 29-34: the value of limitedOcrText.
LimitOcrText(text) ==
  IF Len(text) > MAX_OCR_LENGTH
    THEN SubSeq(text, 1, MAX_OCR_LENGTH) \o TruncationMarker
    ELSE text

\* Characters of the short OCR texts.
TextChars == {"X", "$", "&", "U+0060", "U+0027", "1"}

\* A text of n characters that differ at and after position MAX_OCR_LENGTH.
LongText(n) ==
  [i \in 1..n |-> IF i < MAX_OCR_LENGTH THEN "a"
                  ELSE IF i = MAX_OCR_LENGTH THEN "b" ELSE "c"]

\* ocrText: non-empty (line 14 throws otherwise).
OcrTexts ==
  UNION { [1..n -> TextChars] : n \in 1..MaxShortText }
    \cup { LongText(n) : n \in (MAX_OCR_LENGTH - 1)..(MAX_OCR_LENGTH + MaxOverrun) }

\* prompt: non-empty (line 18 throws otherwise); with the placeholder once,
\* alone, missing, twice, and after a $.
Prompts ==
  LET hello == << "H", "e", "l", "l", "o", " " >>
      bye == << " ", "b", "y", "e" >>
  IN { hello \o Placeholder \o bye,
       Placeholder,
       hello \o bye,
       hello \o Placeholder \o Placeholder \o bye,
       << "$", "&" >> \o Placeholder }

\* ------------------------------------------------------------------- Init
\* The state of the App component and of the logs before the first upload.
PipeStart ==
  /\ llmConfig = <<>>
  /\ promptTemplate = <<>>
  /\ isProcessing = FALSE
  /\ error = <<>>
  /\ ocrResult = <<>>
  /\ llmResult = <<>>
  /\ uploads = 0
  /\ api = 0
  /\ retryCount = 0
  /\ retries = 0
  /\ complete = FALSE
  /\ lastError = <<>>
  /\ operationLocation = 0
  /\ thrown = <<>>
  /\ returned = <<>>
  /\ posts = <<>>
  /\ outcomes = <<>>
  /\ attempts = 0
  /\ getsJob = 0
  /\ getTarget = 0
  /\ waits = 0
  /\ sawOther = FALSE
  /\ succeededAt = 0
  /\ failedAt = 0
  /\ raised = 0
  /\ nActive = 0
  /\ failedSeen = FALSE
  /\ lastPost = ""
  /\ lastStatus = ""
  /\ llmRetryCount = 0
  /\ llmReturned = <<>>
  /\ llmPosts = 0
  /\ llmWaits = 0
  /\ llmAnswers = <<>>
  /\ llmData = <<>>

\* No string function has been called.
TextStart ==
  /\ ocrText = <<>>
  /\ prompt = <<>>
  /\ limitedOcrText = <<>>
  /\ fullPrompt = <<>>
  /\ apiResponse = <<>>
  /\ extractedText = <<>>

Init ==
  /\ azureServiceFile \in ServiceFiles
  /\ azureConfig \in AzureConfigs
  /\ pc = "idle"
  /\ PipeStart
  /\ TextStart

\* status === 'succeeded' (part_000 85, azureService.js 59,
\* llmService.js.new 513)
IsSucceeded(s) == s = "succeeded"

\* Fault variant of IsFailed: every status that is not known to be running
\* counts as a failure.
IsFailed_UnknownStatusFails(s) == s \notin {"succeeded", "running", "geterr"}

\* status === 'failed' (part_000 88, azureService.js 61,
\* llmService.js.new 515)
IsFailed(s) == s = "failed"

\* The logs of one polling loop start empty.
ResetPollLog ==
  /\ getsJob' = 0
  /\ waits' = 0
  /\ sawOther' = FALSE
  /\ lastStatus' = ""
  /\ succeededAt' = 0
  /\ failedAt' = 0

\* The locals and logs of one service call start empty.
ResetCall ==
  /\ api' = 0
  /\ lastError' = <<>>
  /\ posts' = <<>>
  /\ outcomes' = <<>>
  /\ operationLocation' = 0
  /\ retryCount' = 0
  /\ retries' = 0
  /\ complete' = FALSE
  /\ lastPost' = ""
  /\ ResetPollLog

\* ------------------------------------------------- handleFileUpload: start
\* FileUploader.handleSubmit -> handleFileUpload(file) (App.js 75-88): the
\* four setters, then processWithAzurePython up to its first await
\* (readFileAsArrayBuffer, part_000 40) or its configuration throw (14-16).
\* The submit button is disabled while isProcessing.

\* Fault variant of SubmitEnabled: the button is never disabled.
SubmitEnabled_Always(processing) == TRUE

\* <Button type="submit" disabled={!file || isProcessing}> (App.js 309-315),
\* with a file chosen: the form can be submitted.
SubmitEnabled(processing) == ~processing

\* Fault variant of ClearResults: the previous llmResult stays.
ClearResults_KeepsLlmResult ==
  /\ error' = <<>>
  /\ ocrResult' = <<>>
  /\ llmResult' = llmResult

\* setError(''); setOcrResult(null); setLlmResult('') (App.js 77-79)
ClearResults ==
  /\ error' = <<>>
  /\ ocrResult' = <<>>
  /\ llmResult' = <<>>

StartUpload ==
  /\ SubmitEnabled(isProcessing)
  /\ uploads < MaxUploads
  /\ uploads' = uploads + 1
  /\ isProcessing' = TRUE
  /\ ClearResults
  /\ IF azureConfig.endpoint /\ azureConfig.apiKey
       THEN /\ pc' = "py_read"
            /\ thrown' = <<>>
            /\ raised' = 0
       ELSE /\ pc' = "py_threw"
            /\ thrown' = << Err("py-config-incomplete", 1) >>
            /\ raised' = 1
  /\ ResetCall
  /\ returned' = <<>>
  /\ attempts' = 0
  /\ getTarget' = 0
  /\ nActive' = 0
  /\ failedSeen' = FALSE
  /\ llmConfig' = <<>>
  /\ promptTemplate' = <<>>
  /\ llmRetryCount' = 0
  /\ llmReturned' = <<>>
  /\ llmPosts' = 0
  /\ llmWaits' = 0
  /\ llmAnswers' = <<>>
  /\ llmData' = <<>>
  /\ UNCHANGED cfgVars
  /\ UNCHANGED << prompt, limitedOcrText, fullPrompt, extractVars >>
  /\ ocrText' = <<>>

\* ------------------------------------------ processWithAzurePython (part_000)
\* Fault variant of PyLoopCond: off by one (<=).
PyLoopCond_OffByOne(rc) == rc <= PyMaxRetries

\* Fault variant of PyHasLocation: the header check is missing.
PyHasLocation_NoCheck(loc) == TRUE

\* Fault variant of PyFail: the loop variable advances twice, so a
\* candidate is skipped.
PyFail_SkipsCandidate(e) ==
  /\ lastError' = << e >>
  /\ raised' = e.seq
  /\ outcomes' = Append(outcomes, e.kind)
  /\ IF api + 1 < Len(apiVersions)
       THEN /\ api' = api + 2
            /\ pc' = "py_post"
            /\ thrown' = <<>>
       ELSE /\ api' = api
            /\ pc' = "py_threw"
            /\ thrown' = << Wrap(Wrap(e, "py-all-failed"), "py-error") >>

\* Fault variant of PyFail: a poll timeout is rethrown by the catch block
\* and ends the iteration.
PyFail_TimeoutEndsLoop(e) ==
  /\ lastError' = << e >>
  /\ raised' = e.seq
  /\ outcomes' = Append(outcomes, e.kind)
  /\ IF api < Len(apiVersions) /\ e.kind # "poll-timeout"
       THEN /\ api' = api + 1
            /\ pc' = "py_post"
            /\ thrown' = <<>>
       ELSE /\ api' = api
            /\ pc' = "py_threw"
            /\ thrown' = << Wrap(Wrap(e, "py-all-failed"), "py-error") >>

\* Fault variant of PyFail: status 'failed' is treated as fatal and ends
\* the iteration.
PyFail_FailedIsFatal(e) ==
  /\ lastError' = << e >>
  /\ raised' = e.seq
  /\ outcomes' = Append(outcomes, e.kind)
  /\ IF api < Len(apiVersions) /\ e.kind # "job-failed"
       THEN /\ api' = api + 1
            /\ pc' = "py_post"
            /\ thrown' = <<>>
       ELSE /\ api' = api
            /\ pc' = "py_threw"
            /\ thrown' = << Wrap(Wrap(e, "py-all-failed"), "py-error") >>

\* Fault variant of PyFail: a candidate whose request was rejected at the
\* HTTP layer is submitted a second time.
PyFail_RetriesTransport(e) ==
  /\ lastError' = << e >>
  /\ raised' = e.seq
  /\ outcomes' = Append(outcomes, e.kind)
  /\ IF e.kind \in {"network", "geterr"} /\ Len(posts) < api
       THEN /\ api' = api
            /\ pc' = "py_post"
            /\ thrown' = <<>>
       ELSE IF api < Len(apiVersions)
         THEN /\ api' = api + 1
              /\ pc' = "py_post"
              /\ thrown' = <<>>
         ELSE /\ api' = api
              /\ pc' = "py_threw"
              /\ thrown' = << Wrap(Wrap(e, "py-all-failed"), "py-error") >>

\* Fault variant of PyLoopCond: twice the budget.
PyLoopCond_DoubleBudget(rc) == rc < PyMaxRetries + PyMaxRetries

\* while (!complete && retryCount < maxRetries): complete is never set, so
\* the loop condition is the retry bound alone.
PyLoopCond(rc) == rc < PyMaxRetries

\* if (!operationLocation) throw ... (line 135)
PyHasLocation(loc) == loc # 0

\* The catch block of the for-of loop (147-159): lastError = error, then the
\* next iteration up to its axios.post, or, after the last candidate, the
\* throw of line 164 rethrown by the outer catch of line 166.
PyFail(e) ==
  /\ lastError' = << e >>
  /\ raised' = e.seq
  /\ outcomes' = Append(outcomes, e.kind)
  /\ IF api < Len(apiVersions)
       THEN /\ api' = api + 1
            /\ pc' = "py_post"
            /\ thrown' = <<>>
       ELSE /\ api' = api
            /\ pc' = "py_threw"
            /\ thrown' = << PyExhausted(e) >>

\* await readFileAsArrayBuffer(file) settles; on success the for-of loop
\* starts and runs to the first axios.post; a rejection goes to the outer
\* catch.
PyRead ==
  /\ pc = "py_read"
  /\ \E ok \in BOOLEAN :
       IF ok
         THEN /\ pc' = "py_post"
              /\ api' = 1
              /\ UNCHANGED << thrown, raised >>
         ELSE /\ pc' = "py_threw"
              /\ api' = api
              /\ thrown' = << Wrap(Err("file-read", raised + 1), "py-error") >>
              /\ raised' = raised + 1
  /\ lastError' = <<>>
  /\ UNCHANGED << cfgVars, lastPost, appVars, llmVars, loopVars, pollLog, jobLog,
                  uploads, operationLocation, returned, posts, outcomes,
                  attempts >>
  /\ UNCHANGED textVars

\* The response of axios.post(url, fileBuffer) for candidate api arrives
\* (124-140): header check, then pollForResult up to its first axios.get.
PyPost ==
  /\ pc = "py_post"
  /\ posts' = Append(posts, api)
  /\ attempts' = attempts + 1
  /\ retryCount' = 0
  /\ ResetPollLog
  /\ \E r \in PostResponses :
       /\ lastPost' = r
       /\ IF r \in {"non2xx", "network"}
            THEN /\ operationLocation' = 0
                 /\ nActive' = nActive
                 /\ PyFail(Err(r, raised + 1))
            ELSE LET loc == IF r = "ok" THEN attempts + 1 ELSE 0
                 IN /\ operationLocation' = loc
                    /\ nActive' = IF r = "ok" THEN nActive + 1 ELSE nActive
                    /\ IF PyHasLocation(loc)
                         THEN /\ pc' = "py_get"
                              /\ UNCHANGED ctlVars
                         ELSE PyFail(Err("noheader", raised + 1))
  /\ UNCHANGED << cfgVars, appVars, llmVars, uploads, retries, complete,
                  returned, getTarget, failedSeen >>
  /\ UNCHANGED textVars

\* The response of axios.get(resultUrl) arrives (76-93).
PyGet ==
  /\ pc = "py_get"
  /\ getsJob' = getsJob + 1
  /\ getTarget' = operationLocation
  /\ \E s \in GetResponses :
       /\ lastStatus' = s
       /\ CASE IsSucceeded(s) ->
              /\ \E c \in Contents, p \in Paragraphs :
                   returned' = << [apiUrl |-> apiVersions[api].path,
                                   analyzeResult |-> << [job |-> operationLocation,
                                                         content |-> c,
                                                         paragraphs |-> p,
                                                         tables |-> <<>>,
                                                         documents |-> <<>>] >>] >>
              /\ pc' = "py_returned"
              /\ succeededAt' = getsJob + 1
              /\ nActive' = nActive - 1
              /\ UNCHANGED << ctlVars, sawOther, failedAt, failedSeen >>
         [] IsFailed(s) ->
              /\ PyFail(Err("job-failed", raised + 1))
              /\ failedAt' = getsJob + 1
              /\ nActive' = nActive - 1
              /\ failedSeen' = TRUE
              /\ UNCHANGED << returned, sawOther, succeededAt >>
         [] s = "geterr" ->
              /\ PyFail(Err("geterr", raised + 1))
              /\ UNCHANGED << returned, sawOther, succeededAt, failedAt,
                              jobLog >>
         [] OTHER ->
              /\ pc' = "py_wait"
              /\ sawOther' = (sawOther \/ s # "running")
              /\ UNCHANGED << ctlVars, returned, succeededAt, failedAt,
                              jobLog >>
  /\ UNCHANGED << cfgVars, lastPost, appVars, llmVars, loopVars, uploads,
                  operationLocation, posts, attempts, waits >>
  /\ UNCHANGED textVars

\* The 1000 ms timer of line 93 fires: retryCount++, loop test, then either
\* the next axios.get or the timeout throw of line 102.
PyWait ==
  /\ pc = "py_wait"
  /\ waits' = waits + 1
  /\ retryCount' = retryCount + 1
  /\ IF PyLoopCond(retryCount + 1)
       THEN /\ pc' = "py_get"
            /\ UNCHANGED ctlVars
       ELSE PyFail(Err("poll-timeout", raised + 1))
  /\ UNCHANGED << cfgVars, lastPost, appVars, llmVars, jobLog, uploads, retries,
                  complete, operationLocation, returned, posts, attempts,
                  getsJob, getTarget, sawOther, succeededAt, failedAt,
                  lastStatus >>
  /\ UNCHANGED textVars

\* ------------------------------------- handleFileUpload: catch (pythonError)
\* App.js 91-94: the rejection of processWithAzurePython is logged and
\* dropped, and processDocumentWithAzure(file, azureConfig) runs up to its
\* first await (or its configuration throw, which is outside its try).
AppCatchPython ==
  /\ pc = "py_threw"
  /\ IF ~(azureConfig.endpoint /\ azureConfig.apiKey)
       THEN /\ pc' = "std_threw"
            /\ thrown' = << Err("std-config-incomplete", raised + 1) >>
            /\ raised' = raised + 1
       ELSE /\ pc' = IF azureServiceFile = "azureService.js"
                       THEN "std_post" ELSE "new_test"
            /\ thrown' = <<>>
            /\ raised' = raised
  /\ ResetCall
  /\ UNCHANGED << cfgVars, appVars, llmVars, jobLog, uploads, returned,
                  attempts, getTarget >>
  /\ UNCHANGED textVars

\* ------------------------------ azureService.js processDocumentWithAzure
\* catch (error) of line 73: `Azure OCR処理中にエラーが発生しました: ${error.message}`
StdThrow(e) ==
  /\ pc' = "std_threw"
  /\ thrown' = << Wrap(e, "std-error") >>
  /\ raised' = e.seq
  /\ UNCHANGED << api, lastError, outcomes >>

\* Fault variant of StdHasLocation: the header check is missing.
StdHasLocation_NoCheck(loc) == TRUE

\* Fault variant of StdLoopCond: complete is not tested.
StdLoopCond_IgnoresComplete(c, r) == r < StdMaxRetries

\* while (!complete && retries < maxRetries) (line 51)
StdLoopCond(c, r) == ~c /\ r < StdMaxRetries

\* if (!operationLocation) throw ... (line 41)
StdHasLocation(loc) == loc # 0

\* The response of axios.post(apiUrl, formData) arrives (32-52).
StdPost ==
  /\ pc = "std_post"
  /\ posts' = Append(posts, 1)
  /\ attempts' = attempts + 1
  /\ retries' = 0
  /\ complete' = FALSE
  /\ ResetPollLog
  /\ \E r \in PostResponses :
       /\ lastPost' = r
       /\ IF r \in {"non2xx", "network"}
            THEN /\ operationLocation' = 0
                 /\ nActive' = nActive
                 /\ StdThrow(Err(r, raised + 1))
            ELSE LET loc == IF r = "ok" THEN attempts + 1 ELSE 0
                 IN /\ operationLocation' = loc
                    /\ nActive' = IF r = "ok" THEN nActive + 1 ELSE nActive
                    /\ IF StdHasLocation(loc)
                         THEN /\ pc' = "std_wait"
                              /\ UNCHANGED ctlVars
                         ELSE StdThrow(Err("noheader", raised + 1))
  /\ UNCHANGED << cfgVars, appVars, llmVars, uploads, retryCount, returned,
                  getTarget, failedSeen >>
  /\ UNCHANGED textVars

\* The 1000 ms timer of line 52 fires and axios.get is issued.
StdWait ==
  /\ pc = "std_wait"
  /\ waits' = waits + 1
  /\ pc' = "std_get"
  /\ UNCHANGED << cfgVars, lastPost, appVars, llmVars, loopVars, ctlVars, jobLog,
                  uploads, operationLocation, returned, posts, attempts,
                  getsJob, getTarget, sawOther, succeededAt, failedAt,
                  lastStatus >>
  /\ UNCHANGED textVars

\* The response of axios.get(operationLocation) arrives (53-72): status
\* test, retries++, loop test, then the next timer, the return of line 72
\* or the timeout throw of line 69.
StdGet ==
  /\ pc = "std_get"
  /\ getsJob' = getsJob + 1
  /\ getTarget' = operationLocation
  /\ \E s \in GetResponses :
       /\ lastStatus' = s
       /\ CASE IsFailed(s) ->
              /\ StdThrow(Err("job-failed", raised + 1))
              /\ failedAt' = getsJob + 1
              /\ nActive' = nActive - 1
              /\ failedSeen' = TRUE
              /\ UNCHANGED << retries, complete, returned, sawOther,
                              succeededAt >>
         [] s = "geterr" ->
              /\ StdThrow(Err("geterr", raised + 1))
              /\ UNCHANGED << retries, complete, returned, sawOther,
                              succeededAt, failedAt, jobLog >>
         [] OTHER ->
              LET done == (complete \/ IsSucceeded(s))
              IN /\ complete' = done
                 /\ retries' = retries + 1
                 /\ succeededAt' = IF IsSucceeded(s) THEN getsJob + 1
                                                      ELSE succeededAt
                 /\ nActive' = IF IsSucceeded(s) THEN nActive - 1 ELSE nActive
                 /\ sawOther' = (sawOther \/ s = "notStarted")
                 /\ IF StdLoopCond(done, retries + 1)
                      THEN /\ pc' = "std_wait"
                           /\ UNCHANGED << ctlVars, returned >>
                      ELSE IF ~done
                        THEN /\ StdThrow(Err("poll-timeout", raised + 1))
                             /\ UNCHANGED returned
                        ELSE /\ pc' = "std_returned"
                             /\ \E c \in Contents, p \in Paragraphs :
                                  returned' = << [apiUrl |-> "",
                                                  analyzeResult |-> << [job |-> operationLocation,
                                                                        content |-> c,
                                                                        paragraphs |-> p,
                                                                        tables |-> <<>>,
                                                                        documents |-> <<>>] >>] >>
                             /\ UNCHANGED ctlVars
                 /\ UNCHANGED << failedAt, failedSeen >>
  /\ UNCHANGED << cfgVars, lastPost, appVars, llmVars, uploads, retryCount,
                  operationLocation, posts, attempts, waits >>
  /\ UNCHANGED textVars

\* ---------------------------- llmService.js.new processDocumentWithAzure
\* The 2021-09-30 candidates read the file (FileReader, 660-667) before
\* their POST.
NewEnter(i) == IF apiFormats[i].apiVersion = 20210930 THEN "new_read" ELSE "new_post"

\* while (!complete && retries < maxRetries) of processAnalysisResponse (505)
NewLoopCond(c, r) == ~c /\ r < NewMaxRetries

\* if (!operationLocation) throw ... (line 493)
NewHasLocation(loc) == loc # 0

\* Fault variant of NewFail: lastError keeps the first error
\* (lastError = lastError || error).
NewFail_KeepsFirstError(e) ==
  /\ lastError' = IF lastError = <<>> THEN << e >> ELSE lastError
  /\ raised' = e.seq
  /\ outcomes' = outcomes
  /\ IF api < Len(apiFormats)
       THEN /\ api' = api + 1
            /\ pc' = NewEnter(api + 1)
            /\ thrown' = <<>>
       ELSE /\ api' = api
            /\ pc' = "std_threw"
            /\ thrown' = << Wrap(Wrap(IF lastError = <<>> THEN e ELSE lastError[1],
                                      "new-all-failed"), "std-error") >>

\* The catch block of the for-of loop (704-713): lastError = error, then the
\* next candidate up to its first await, or the throw of line 718 rethrown
\* by the catch of line 720.
NewFail(e) ==
  /\ lastError' = << e >>
  /\ raised' = e.seq
  /\ outcomes' = outcomes
  /\ IF api < Len(apiFormats)
       THEN /\ api' = api + 1
            /\ pc' = NewEnter(api + 1)
            /\ thrown' = <<>>
       ELSE /\ api' = api
            /\ pc' = "std_threw"
            /\ thrown' = << NewExhausted(e) >>

\* await testAzureConnection(config) settles (574-585; it only looks up the
\* model id and its failure is caught), apiFormats is built and the loop
\* runs to the first candidate's first await.
NewTest ==
  /\ pc = "new_test"
  /\ api' = 1
  /\ pc' = NewEnter(1)
  /\ UNCHANGED << cfgVars, lastPost, appVars, llmVars, loopVars, pollLog, jobLog,
                  uploads, lastError, thrown, raised, outcomes,
                  operationLocation, returned, posts, attempts >>
  /\ UNCHANGED textVars

\* The FileReader promise of lines 662-667 settles and axios.post is issued.
NewRead ==
  /\ pc = "new_read"
  /\ \E ok \in BOOLEAN :
       IF ok
         THEN /\ pc' = "new_post"
              /\ UNCHANGED ctlVars
         ELSE NewFail(Err("file-read", raised + 1))
  /\ UNCHANGED << cfgVars, lastPost, appVars, llmVars, loopVars, pollLog, jobLog,
                  uploads, operationLocation, returned, posts, attempts >>
  /\ UNCHANGED textVars

\* The response of axios.post arrives (689-703), then
\* processAnalysisResponse up to its first timer (490-506).
NewPost ==
  /\ pc = "new_post"
  /\ posts' = Append(posts, api)
  /\ attempts' = attempts + 1
  /\ retries' = 0
  /\ complete' = FALSE
  /\ ResetPollLog
  /\ \E r \in PostResponses :
       /\ lastPost' = r
       /\ IF r \in {"non2xx", "network"}
            THEN /\ operationLocation' = 0
                 /\ nActive' = nActive
                 /\ NewFail(Err(r, raised + 1))
            ELSE LET loc == IF r = "ok" THEN attempts + 1 ELSE 0
                 IN /\ operationLocation' = loc
                    /\ nActive' = IF r = "ok" THEN nActive + 1 ELSE nActive
                    /\ IF NewHasLocation(loc)
                         THEN /\ pc' = "new_wait"
                              /\ UNCHANGED ctlVars
                         ELSE NewFail(Err("noheader", raised + 1))
  /\ UNCHANGED << cfgVars, appVars, llmVars, uploads, retryCount, returned,
                  getTarget, failedSeen >>
  /\ UNCHANGED textVars

\* The 1000 ms timer of line 506 fires and axios.get is issued.
NewWait ==
  /\ pc = "new_wait"
  /\ waits' = waits + 1
  /\ pc' = "new_get"
  /\ UNCHANGED << cfgVars, lastPost, appVars, llmVars, loopVars, ctlVars, jobLog,
                  uploads, operationLocation, returned, posts, attempts,
                  getsJob, getTarget, sawOther, succeededAt, failedAt,
                  lastStatus >>
  /\ UNCHANGED textVars

\* The response of axios.get(operationLocation) arrives (507-526).
NewGet ==
  /\ pc = "new_get"
  /\ getsJob' = getsJob + 1
  /\ getTarget' = operationLocation
  /\ \E s \in GetResponses :
       /\ lastStatus' = s
       /\ CASE IsFailed(s) ->
              /\ NewFail(Err("job-failed", raised + 1))
              /\ failedAt' = getsJob + 1
              /\ nActive' = nActive - 1
              /\ failedSeen' = TRUE
              /\ UNCHANGED << retries, complete, returned, sawOther,
                              succeededAt >>
         [] s = "geterr" ->
              /\ NewFail(Err("geterr", raised + 1))
              /\ UNCHANGED << retries, complete, returned, sawOther,
                              succeededAt, failedAt, jobLog >>
         [] OTHER ->
              LET done == (complete \/ IsSucceeded(s))
              IN /\ complete' = done
                 /\ retries' = retries + 1
                 /\ succeededAt' = IF IsSucceeded(s) THEN getsJob + 1
                                                      ELSE succeededAt
                 /\ nActive' = IF IsSucceeded(s) THEN nActive - 1 ELSE nActive
                 /\ sawOther' = (sawOther \/ s = "notStarted")
                 /\ IF NewLoopCond(done, retries + 1)
                      THEN /\ pc' = "new_wait"
                           /\ UNCHANGED << ctlVars, returned >>
                      ELSE IF ~done
                        THEN /\ NewFail(Err("poll-timeout", raised + 1))
                             /\ UNCHANGED returned
                        ELSE /\ pc' = "std_returned"
                             /\ \E c \in Contents, p \in Paragraphs :
                                  returned' = << [apiUrl |-> "",
                                                  analyzeResult |-> << [job |-> operationLocation,
                                                                        content |-> c,
                                                                        paragraphs |-> p,
                                                                        tables |-> <<>>,
                                                                        documents |-> <<>>] >>] >>
                             /\ UNCHANGED ctlVars
                 /\ UNCHANGED << failedAt, failedSeen >>
  /\ UNCHANGED << cfgVars, lastPost, appVars, llmVars, uploads, retryCount,
                  operationLocation, posts, attempts, waits >>
  /\ UNCHANGED textVars

\* ------------------------------------------------------------- extractors
\* An optional field of the analysis result (content, paragraphs, tables,
\* documents, a table's cells, a document's fields) is <<>> when missing and
\* << value >> when present.  An extractor call ends in [threw, text]: a
\* TypeError, or the returned string.
Returns(text) == [threw |-> FALSE, text |-> text]
Throws == [threw |-> TRUE, text |-> <<>>]

\* `x && x.length > 0` for a list, `if (x)` for a string.
Truthy(field) == field # <<>> /\ field[1] # <<>>

Max(S) == CHOOSE x \in S : \A y \in S : y <= x

\* `${tableIndex + 1}` for the table numbers that occur.
String(n) == << << "1", "2", "3", "4", "5", "6", "7", "8", "9" >>[n] >>

\* Fault variant of CellsOf: the default is missing.
CellsOf_NoDefault(table) == table.cells

\* const cells = table.cells || []
CellsOf(table) == IF table.cells # <<>> THEN table.cells ELSE << <<>> >>

\* Math.max(...cells.map(cell => cell.rowIndex)) + 1.  Of an empty list
\* Math.max() is -Infinity; the loop that builds the rows then runs 0 times.
rowCount(cells) ==
  IF cells = <<>> THEN 0
  ELSE Max({ cells[k].rowIndex : k \in 1..Len(cells) }) + 1

colCount(cells) ==
  IF cells = <<>> THEN 0
  ELSE Max({ cells[k].columnIndex : k \in 1..Len(cells) }) + 1

\* Fault variant of tableData: row and column are exchanged.
tableData_Transposed(cells, skipEmpty) ==
  [r \in 1..colCount(cells) |->
    [c \in 1..rowCount(cells) |->
      LET hits == { k \in 1..Len(cells) :
                      /\ cells[k].columnIndex = r - 1
                      /\ cells[k].rowIndex = c - 1
                      /\ (skipEmpty => cells[k].content # <<>>) }
      IN IF hits = {} THEN <<>> ELSE cells[Max(hits)].content]]

\* tableData after the fill loop: row r, column c of the source is
\* tableData[r + 1][c + 1] here.  Array(colCount).fill(''), then every cell
\* in list order (part_000 / azureService.js: only a cell with content).
tableData(cells, skipEmpty) ==
  [r \in 1..rowCount(cells) |->
    [c \in 1..colCount(cells) |->
      LET hits == { k \in 1..Len(cells) :
                      /\ cells[k].rowIndex = r - 1
                      /\ cells[k].columnIndex = c - 1
                      /\ (skipEmpty => cells[k].content # <<>>) }
      IN IF hits = {} THEN <<>> ELSE cells[Max(hits)].content]]

\* tableData.forEach(row => { extractedText += row.join(' | ') + '\n' })
RenderRows(rows) ==
  Join([r \in 1..Len(rows) |-> Join(rows[r], << " ", "|", " " >>) \o << "\n" >>],
       <<>>)

\* '\n\n表形式データ:\n'
TableSectionHeader ==
  << "\n", "\n", "U+8868", "U+5F62", "U+5F0F", "U+30C7", "U+30FC",
     "U+30BF", ":", "\n" >>

\* `\n表 ${tableIndex + 1}:\n`
TableTitle(tableIndex) ==
  << "\n", "U+8868", " " >> \o String(tableIndex + 1) \o << ":", "\n" >>

\* One iteration of tables.forEach (part_000 244-270, azureService.js
\* 101-127): the title, then the rows.
RenderTable(table, tableIndex) ==
  LET cells == CellsOf(table)
  IN IF cells = <<>>
       THEN Throws
       ELSE Returns(TableTitle(tableIndex)
                      \o RenderRows(tableData(cells[1], TRUE)))

\* if (tables && tables.length > 0) { ... } (part_000 241-271,
\* azureService.js 98-128): '\n\n表形式データ:\n', then every table.
TableSection(tables) ==
  IF ~Truthy(tables)
    THEN Returns(<<>>)
    ELSE LET parts == [k \in 1..Len(tables[1]) |-> RenderTable(tables[1][k], k - 1)]
         IN IF \E k \in 1..Len(parts) : parts[k].threw
              THEN Throws
              ELSE Returns(TableSectionHeader
                             \o Join([k \in 1..Len(parts) |-> parts[k].text], <<>>))

\* paragraphs.map(p => p.content).join(sep), '' without paragraphs.
ParagraphText(paragraphs, sep) ==
  IF Truthy(paragraphs)
    THEN Join([k \in 1..Len(paragraphs[1]) |-> paragraphs[1][k].content], sep)
    ELSE <<>>

\* The paragraphs joined by a blank line, then the table section (part_000
\* 234-273, azureService.js 90-130).
ParagraphsAndTables(analyzeResult) ==
  LET tables == TableSection(analyzeResult.tables)
  IN IF tables.threw
       THEN Throws
       ELSE Returns(ParagraphText(analyzeResult.paragraphs, << "\n", "\n" >>)
                      \o tables.text)

\* extractTextFromResult (part_000 221-274): content alone when there is
\* one, else paragraphs and tables.
extractTextFromResult(result) ==
  IF result = <<>> \/ result[1].analyzeResult = <<>>
    THEN Returns(<<>>)
    ELSE LET analyzeResult == result[1].analyzeResult[1]
         IN IF Truthy(analyzeResult.content)
              THEN Returns(analyzeResult.content[1])
              ELSE ParagraphsAndTables(analyzeResult)

\* extractTextFromAzureResponse (azureService.js 84-131): paragraphs and
\* tables; content is not read.
extractTextFromAzureResponse(response) ==
  IF response = <<>> \/ response[1].analyzeResult = <<>>
    THEN Returns(<<>>)
    ELSE ParagraphsAndTables(response[1].analyzeResult[1])

\* llmService.js.new 744-748: content under its heading, else the
\* paragraphs joined by a newline under theirs.
NewTextSection(analyzeResult) ==
  IF Truthy(analyzeResult.content)
    THEN << "U+3010", "O", "C", "R", "U+30C6", "U+30AD", "U+30B9", "U+30C8",
     "U+5168", "U+4F53", "U+3011", "\n" >>
           \o analyzeResult.content[1] \o << "\n", "\n" >>
    ELSE IF Truthy(analyzeResult.paragraphs)
      THEN << "U+3010", "U+6BB5", "U+843D", "U+30C6", "U+30AD", "U+30B9", "U+30C8",
     "U+3011", "\n" >>
             \o ParagraphText(analyzeResult.paragraphs, << "\n" >>)
             \o << "\n", "\n" >>
      ELSE <<>>

\* The state of a selection field: field.value?.state.
IsSelected(field) == field.state = "selected"

\* '✓選択済み' / '☐未選択'
SelectionText(selected) ==
  IF selected THEN << "U+2713", "U+9078", "U+629E", "U+6E08", "U+307F" >>
  ELSE << "U+2610", "U+672A", "U+9078", "U+629E" >>

\* One entry of Object.entries(fields) (llmService.js.new 759-771).
FieldLine(field) ==
  IF field.type = "selectionMark"
    THEN field.key \o << ":", " " >> \o SelectionText(IsSelected(field)) \o << "\n" >>
    ELSE IF field.valueString # <<>> \/ field.content # <<>>
      THEN field.key \o << ":", " " >>
             \o (IF field.valueString # <<>> THEN field.valueString
                                             ELSE field.content)
             \o << "\n" >>
      ELSE <<>>

\* const fields = document.fields || {}
FieldsOf(document) == IF document.fields # <<>> THEN document.fields[1] ELSE <<>>

\* llmService.js.new 751-773: the fields of documents[0].
DocumentSection(documents) ==
  IF ~Truthy(documents)
    THEN <<>>
    ELSE LET fields == FieldsOf(documents[1][1])
         IN << "U+3010", "U+9078", "U+629E", "U+72B6", "U+614B", "U+60C5", "U+5831",
     "U+3011", "\n" >>
              \o Join([k \in 1..Len(fields) |-> FieldLine(fields[k])], <<>>)
              \o << "\n" >>

\* One iteration of tables.forEach (llmService.js.new 779-814); no cell of
\* the inputs has a selectionState.
NewRenderTable(table, tableIndex) ==
  LET cells == CellsOf(table)
  IN IF cells = <<>>
       THEN Throws
       ELSE Returns(<< "U+8868" >> \o String(tableIndex + 1) \o << ":", "\n" >>
                      \o RenderRows(tableData(cells[1], FALSE))
                      \o << "\n" >>)

\* llmService.js.new 776-815
NewTableSection(tables) ==
  IF ~Truthy(tables)
    THEN Returns(<<>>)
    ELSE LET parts == [k \in 1..Len(tables[1]) |-> NewRenderTable(tables[1][k], k - 1)]
         IN IF \E k \in 1..Len(parts) : parts[k].threw
              THEN Throws
              ELSE Returns(<< "U+3010", "U+8868", "U+5F62", "U+5F0F", "U+30C7", "U+30FC", "U+30BF",
     "U+3011", "\n" >>
                             \o Join([k \in 1..Len(parts) |-> parts[k].text], <<>>))

IsSelectionMark(field) == field.type = "selectionMark"

\* searchSelectionMarks(apiResponse.analyzeResult) (llmService.js.new
\* 818-838): the depth-first walk meets the nodes typed selectionMark, which
\* in the inputs are fields of documents, in document and field order.
searchSelectionMarks(analyzeResult) ==
  IF analyzeResult.documents = <<>>
    THEN <<>>
    ELSE LET documents == analyzeResult.documents[1]
         IN SelectSeq(Join([k \in 1..Len(documents) |-> FieldsOf(documents[k])], <<>>),
                      IsSelectionMark)

\* obj.content || obj.valueString || obj.name || 'Unnamed', then the state
\* (llmService.js.new 824, 843).
MarkLine(mark) ==
  (IF mark.content # <<>> THEN mark.content
   ELSE IF mark.valueString # <<>> THEN mark.valueString
   ELSE << "U", "n", "n", "a", "m", "e", "d" >>)
    \o << ":", " " >> \o SelectionText(IsSelected(mark)) \o << "\n" >>

\* llmService.js.new 840-846
SelectionMarkSection(analyzeResult) ==
  LET selectionMarks == searchSelectionMarks(analyzeResult)
  IN IF selectionMarks = <<>>
       THEN <<>>
       ELSE << "U+3010", "U+691C", "U+51FA", "U+3055", "U+308C", "U+305F", "U+9078",
     "U+629E", "U+30DE", "U+30FC", "U+30AF", "U+3011", "\n" >>
              \o Join([k \in 1..Len(selectionMarks) |-> MarkLine(selectionMarks[k])], <<>>)
              \o << "\n" >>

\* extractTextFromAzureResponse of llmService.js.new (731-849).
extractTextFromAzureResponseNew(response) ==
  IF response = <<>> \/ response[1].analyzeResult = <<>>
    THEN Returns(<<>>)
    ELSE LET analyzeResult == response[1].analyzeResult[1]
             tables == NewTableSection(analyzeResult.tables)
         IN IF tables.threw
              THEN Throws
              ELSE Returns(NewTextSection(analyzeResult)
                             \o DocumentSection(analyzeResult.documents)
                             \o tables.text
                             \o SelectionMarkSection(analyzeResult))

\* ------------------------------------------ handleFileUpload: after the OCR
\* Fault variant of Finally: isProcessing is left as it is.
Finally_KeepsProcessing ==
  /\ isProcessing' = isProcessing
  /\ pc' = "idle"

\* finally { setIsProcessing(false) } (App.js 145-147)
Finally ==
  /\ isProcessing' = FALSE
  /\ pc' = "idle"

\* Fault variant of Extract: the extractor of azureService.js whichever
\* implementation returned.
Extract_AlwaysStandard(python, response) ==
  extractTextFromAzureResponse(response).text

\* extractTextFromResult(azureResponse) after processWithAzurePython
\* (App.js 89), extractTextFromAzureResponse(azureResponse) of
\* './services/azureService' after processDocumentWithAzure (App.js 95).
Extract(python, response) ==
  IF python
    THEN extractTextFromResult(response).text
    ELSE IF azureServiceFile = "azureService.js"
      THEN extractTextFromAzureResponse(response).text
      ELSE extractTextFromAzureResponseNew(response).text

\* Fault variant of LlmCallText: the content field of the raw response.
LlmCallText_RawContent(text, response) ==
  IF response[1].analyzeResult[1].content = <<>>
    THEN <<>>
    ELSE response[1].analyzeResult[1].content[1]

\* The first argument of processWithLocalLLM(extractedText, promptTemplate,
\* configForLLM) (App.js 129-133); it is not empty (App.js 104), so the
\* test of llmService.js 14 does not throw.
LlmCallText(text, response) == text

\* App.js 89/95-134: extract, setOcrResult, then, if there is text and an
\* LLM endpoint, processWithLocalLLM up to its axios.post or to one of its
\* argument throws (llmService.js 14-24).  llmConfig and promptTemplate are
\* read here for the first time in the upload; the forms that edit them are
\* disabled while isProcessing.
AppOcrDone ==
  /\ pc \in {"py_returned", "std_returned"}
  /\ LET text == Extract(pc = "py_returned", returned)
     IN /\ ocrResult' = << [rawResponse |-> returned[1], extractedText |-> text] >>
        /\ \E cfg \in LlmConfigs, template \in BOOLEAN :
             /\ llmConfig' = << cfg >>
             /\ promptTemplate' = << template >>
             /\ IF text # <<>> /\ cfg.endpoint
                  THEN /\ isProcessing' = isProcessing
                       /\ ocrText' = LlmCallText(text, returned)
                       /\ IF ~template
                            THEN /\ pc' = "llm_threw"
                                 /\ thrown' = << Err("llm-no-prompt", raised + 1) >>
                                 /\ raised' = raised + 1
                            ELSE IF ~(cfg.apiKey /\ cfg.deploymentName)
                              THEN /\ pc' = "llm_threw"
                                   /\ thrown' = << Err("llm-config-incomplete", raised + 1) >>
                                   /\ raised' = raised + 1
                              ELSE /\ pc' = "llm_post"
                                   /\ UNCHANGED << thrown, raised >>
                  ELSE /\ Finally
                       /\ UNCHANGED << thrown, raised, ocrText >>
  /\ returned' = <<>>
  /\ llmRetryCount' = 0
  /\ ResetCall
  /\ UNCHANGED << cfgVars, jobLog, error, llmResult, uploads, attempts,
                  getTarget, llmReturned, llmPosts, llmWaits, llmAnswers,
                  llmData >>
  /\ UNCHANGED << prompt, limitedOcrText, fullPrompt, extractVars >>

\* App.js 142-147: catch (ocrError) { setError(`OCR処理エラー: ...`) } finally.
AppOcrFailed ==
  /\ pc = "std_threw"
  /\ error' = << Wrap(thrown[1], "ocr-error") >>
  /\ thrown' = <<>>
  /\ Finally
  /\ UNCHANGED << cfgVars, lastPost, llmVars, loopVars, pollLog, jobLog, ocrResult,
                  llmResult, uploads, api, lastError, raised, outcomes,
                  operationLocation, returned, posts, attempts >>
  /\ UNCHANGED textVars

\* ------------------------------------ llmService.js processWithAzureOpenAI
\* The catch of lines 125-175 turns every failure into a new Error.
LlmThrow(kind) ==
  /\ pc' = "llm_threw"
  /\ thrown' = << Err(kind, raised + 1) >>
  /\ raised' = raised + 1

\* Fault variant of LlmRetryCond: a single retry.
LlmRetryCond_SingleRetry(r, rc) == r = "429" /\ rc < 1

\* Fault variant of LlmRetryCond: every failure is retried.
LlmRetryCond_RetriesAnyFailure(r, rc) == rc < LlmMaxRetries

\* Fault variant of LlmRetryCond: off by one (<=).
LlmRetryCond_OffByOne(r, rc) == r = "429" /\ rc <= LlmMaxRetries

\* err.response && err.response.status === 429 && retryCount < maxRetries
LlmRetryCond(r, rc) == r = "429" /\ rc < LlmMaxRetries

\* response.data.choices && response.data.choices.length > 0 (line 113)
HasChoices(data) == data.choices # <<>> /\ Len(data.choices[1]) > 0

\* Fault variant of FirstChoice: the last choice is returned.
FirstChoice_TakesLast(data) == data.choices[1][Len(data.choices[1])]

\* response.data.choices[0].message.content (line 114)
FirstChoice(data) == data.choices[1][1]

\* The response of axios.post(endpoint, requestData) arrives (89-118), with
\* the catch blocks of lines 100-110, 119-122 and 125-175.
LlmPost ==
  /\ pc = "llm_post"
  /\ llmPosts' = llmPosts + 1
  /\ \E r \in LlmResponses :
       /\ llmAnswers' = Append(llmAnswers, r)
       /\ IF r = "200"
            THEN \E data \in ResponseData :
                   /\ llmData' = << data >>
                   /\ llmRetryCount' = llmRetryCount
                   /\ IF HasChoices(data)
                        THEN /\ pc' = "llm_returned"
                             /\ llmReturned' = << FirstChoice(data) >>
                             /\ UNCHANGED << thrown, raised >>
                        ELSE /\ LlmThrow("llm-unexpected-format")
                             /\ llmReturned' = llmReturned
            ELSE /\ llmData' = llmData
                 /\ llmReturned' = llmReturned
                 /\ IF LlmRetryCond(r, llmRetryCount)
                      THEN /\ llmRetryCount' = llmRetryCount + 1
                           /\ pc' = "llm_wait"
                           /\ UNCHANGED << thrown, raised >>
                      ELSE /\ LlmThrow(r)
                           /\ llmRetryCount' = llmRetryCount
  /\ UNCHANGED << cfgVars, lastPost, appVars, loopVars, pollLog, jobLog,
                  llmConfig, promptTemplate, llmWaits, uploads, api,
                  lastError, outcomes, operationLocation, returned, posts,
                  attempts >>
  /\ UNCHANGED textVars

\* The 90000 ms timer of line 105 fires; continue; the POST is reissued.
LlmWait ==
  /\ pc = "llm_wait"
  /\ llmWaits' = llmWaits + 1
  /\ pc' = "llm_post"
  /\ UNCHANGED << cfgVars, lastPost, appVars, loopVars, ctlVars, pollLog, jobLog,
                  llmConfig, promptTemplate, llmRetryCount, llmReturned,
                  llmPosts, llmAnswers, llmData, uploads,
                  operationLocation, returned, posts, attempts >>
  /\ UNCHANGED textVars

\* Fault variant of AppCatchLlm: the OCR result is dropped with the error.
AppCatchLlm_DropsOcrResult ==
  /\ error' = << Wrap(thrown[1], "llm-error") >>
  /\ llmResult' = llmResult
  /\ ocrResult' = <<>>

\* catch (llmError) { setError(`LLM処理エラー: ${llmError.message}`) }
\* (App.js 136-140)
AppCatchLlm ==
  /\ error' = << Wrap(thrown[1], "llm-error") >>
  /\ llmResult' = llmResult
  /\ ocrResult' = ocrResult

\* App.js 135-147: setLlmResult(formattedText) or
\* setError(`LLM処理エラー: ...`), then finally.
AppLlmDone ==
  /\ pc \in {"llm_returned", "llm_threw"}
  /\ IF pc = "llm_returned"
       THEN /\ llmResult' = llmReturned
            /\ error' = error
            /\ ocrResult' = ocrResult
       ELSE AppCatchLlm
  /\ thrown' = <<>>
  /\ llmReturned' = <<>>
  /\ Finally
  /\ UNCHANGED << cfgVars, lastPost, loopVars, pollLog, jobLog, llmConfig,
                  promptTemplate, llmRetryCount, llmPosts, llmWaits,
                  llmAnswers, llmData, uploads, api, lastError, raised,
                  outcomes,
                  operationLocation, returned, posts, attempts >>
  /\ UNCHANGED textVars

\* ------------------------------------------------------------------- Spec
Next ==
  \/ StartUpload
  \/ PyRead
  \/ PyPost
  \/ PyGet
  \/ PyWait
  \/ AppCatchPython
  \/ StdPost
  \/ StdWait
  \/ StdGet
  \/ NewTest
  \/ NewRead
  \/ NewPost
  \/ NewWait
  \/ NewGet
  \/ AppOcrDone
  \/ AppOcrFailed
  \/ LlmPost
  \/ LlmWait
  \/ AppLlmDone

Spec == Init /\ [][Next]_vars

\* ------------------------------------------------------- fair behaviours
\* An awaited promise of processWithAzurePython settles and its continuation
\* runs.
SettlePython == PyRead \/ PyPost \/ PyGet \/ PyWait

\* One call of processWithAzurePython, from handleFileUpload's call to the
\* settling of its promise.
NextPython ==
  \/ StartUpload
  \/ PyRead
  \/ PyPost
  \/ PyGet
  \/ PyWait

\* processWithAzurePython when every HTTP request is eventually answered or
\* rejected, the FileReader and every timer eventually fire, and the event
\* loop then runs the continuation.
SpecPython == Init /\ [][NextPython]_vars /\ WF_vars(SettlePython)

\* An awaited promise of the running upload settles and its continuation
\* runs: every action but the user's StartUpload.
Settle ==
  \/ PyRead \/ PyPost \/ PyGet \/ PyWait
  \/ AppCatchPython
  \/ StdPost \/ StdWait \/ StdGet
  \/ NewTest \/ NewRead \/ NewPost \/ NewWait \/ NewGet
  \/ AppOcrDone \/ AppOcrFailed
  \/ LlmPost \/ LlmWait
  \/ AppLlmDone

\* The user submits the first file of the session.
FirstUpload ==
  /\ uploads < MaxFairUploads
  /\ StartUpload

\* handleFileUpload for the first MaxFairUploads uploads of a session.
NextFair ==
  \/ FirstUpload
  \/ PyRead
  \/ PyPost
  \/ PyGet
  \/ PyWait
  \/ AppCatchPython
  \/ StdPost
  \/ StdWait
  \/ StdGet
  \/ NewTest
  \/ NewRead
  \/ NewPost
  \/ NewWait
  \/ NewGet
  \/ AppOcrDone
  \/ AppOcrFailed
  \/ LlmPost
  \/ LlmWait
  \/ AppLlmDone

\* The pipeline when every HTTP request is eventually answered or rejected,
\* every FileReader and every timer eventually fires, and the event loop
\* then runs the continuation.  Nothing forces the user to upload.
SpecFair == Init /\ [][NextFair]_vars /\ WF_vars(Settle)

\* --------------------------------- processWithAzureOpenAI: the user message
\* llmService.js 26-36 for every ocrText and prompt of the input sets: the
\* call has passed the argument checks of lines 14-24 ("llm_enter") and
\* builds limitedOcrText and fullPrompt ("llm_built").
InitPrompt ==
  /\ azureServiceFile = "azureService.js"
  /\ azureConfig = [endpoint |-> TRUE, apiKey |-> TRUE]
  /\ pc = "llm_enter"
  /\ PipeStart
  /\ ocrText \in OcrTexts
  /\ prompt \in Prompts
  /\ limitedOcrText = <<>>
  /\ fullPrompt = <<>>
  /\ apiResponse = <<>>
  /\ extractedText = <<>>

BuildPrompt ==
  /\ pc = "llm_enter"
  /\ limitedOcrText' = << LimitOcrText(ocrText) >>
  /\ fullPrompt' = << replace(prompt, Placeholder, LimitOcrText(ocrText)) >>
  /\ pc' = "llm_built"
  /\ UNCHANGED << pipeVars, ocrText, prompt, extractVars >>

NextPrompt == BuildPrompt

SpecPrompt == InitPrompt /\ [][NextPrompt]_vars

\* ------------------------------------------------------ the extractor calls
\* Cell contents by grid position, row by row.
CellLetters == << "A", "B", "C", "D", "E", "F", "G", "H", "I", "J", "K", "L",
                 "M", "N", "O", "P" >>

\* The grid positions << rowIndex, columnIndex >>, row by row.
Positions ==
  [n \in 1..((MaxIndex + 1) * (MaxIndex + 1)) |->
    << (n - 1) \div (MaxIndex + 1), (n - 1) % (MaxIndex + 1) >>]

\* The cells list with one cell at each position of S, row by row; the cell
\* at a position of blank has the empty content.
CellsAt(S, blank) ==
  LET here(n) == Positions[n] \in S
      ns == SelectSeq([n \in 1..Len(Positions) |-> n], here)
  IN [k \in 1..Len(ns) |->
       [rowIndex |-> Positions[ns[k]][1],
        columnIndex |-> Positions[ns[k]][2],
        content |-> IF Positions[ns[k]] \in blank THEN <<>>
                    ELSE << CellLetters[ns[k]] >>]]

\* The cells (0,0) = "A" and (1,1) = "B".
ExampleCells ==
  << [rowIndex |-> 0, columnIndex |-> 0, content |-> << "A" >>],
     [rowIndex |-> 1, columnIndex |-> 1, content |-> << "B" >>] >>

\* cells of a table: every set of positions, each also with its last cell
\* blank, and in reverse order; and the example.
CellLists ==
  LET all == { Positions[n] : n \in 1..Len(Positions) }
      rev(l) == [k \in 1..Len(l) |-> l[Len(l) + 1 - k]]
      last(S) == IF S = {} THEN {}
                 ELSE { Positions[Max({ n \in 1..Len(Positions) : Positions[n] \in S })] }
  IN { CellsAt(S, {}) : S \in SUBSET all }
       \cup { CellsAt(S, last(S)) : S \in SUBSET all }
       \cup { rev(CellsAt(S, {})) : S \in SUBSET all }
       \cup { ExampleCells }

\* analyzeResult.tables: missing, empty, one table (cells missing or
\* present), two tables.
TableFields ==
  { <<>>, << <<>> >>, << << [cells |-> <<>>] >> >> }
    \cup { << << [cells |-> << l >>] >> >> : l \in CellLists }
    \cup { << << [cells |-> << ExampleCells >>], [cells |-> <<>>] >> >>,
           << << [cells |-> << ExampleCells >>],
                 [cells |-> << CellsAt({ << 0, MaxIndex >> }, {}) >>] >> >> }

\* analyzeResult.content: missing, '', 'C'.
ContentFields == { <<>>, << <<>> >>, << << "C" >> >> }

\* analyzeResult.paragraphs: missing, empty, one, two.
ParagraphFields ==
  { <<>>, << <<>> >>,
    << << [content |-> << "P" >>] >> >>,
    << << [content |-> << "P" >>], [content |-> << "Q" >>] >> >> }

\* analyzeResult.documents: missing, empty, a document without fields, a
\* document with a selection field and a text field.
DocumentFields ==
  { <<>>, << <<>> >>,
    << << [fields |-> <<>>] >> >>,
    << << [fields |-> << << [key |-> << "K" >>, type |-> "selectionMark",
                             state |-> "selected", valueString |-> <<>>,
                             content |-> << "S" >>],
                            [key |-> << "N" >>, type |-> "string",
                             state |-> "", valueString |-> << "V" >>,
                             content |-> <<>>] >> >>] >> >> }

\* The arguments of the extractors: null, a response without
\* analyzeResult, a response with one.
ApiResponses ==
  { <<>>, << [analyzeResult |-> <<>>] >> }
    \cup { << [analyzeResult |-> << [job |-> 0, content |-> c, paragraphs |-> p,
                                      tables |-> t, documents |-> d] >>] >> :
             c \in ContentFields, p \in ParagraphFields,
             t \in TableFields, d \in DocumentFields }

\* handleFileUpload has the response of the OCR call ("ocr_returned") and
\* calls the extractor that belongs to it ("extracted").
InitExtract ==
  /\ azureServiceFile = "azureService.js"
  /\ azureConfig = [endpoint |-> TRUE, apiKey |-> TRUE]
  /\ pc = "ocr_returned"
  /\ PipeStart
  /\ apiResponse \in ApiResponses
  /\ extractedText = <<>>
  /\ ocrText = <<>>
  /\ prompt = <<>>
  /\ limitedOcrText = <<>>
  /\ fullPrompt = <<>>

\* App.js 89: extractTextFromResult(azureResponse)
CallExtractTextFromResult ==
  /\ pc = "ocr_returned"
  /\ extractedText' = << [by |-> "azureServicePython.js",
                          call |-> extractTextFromResult(apiResponse)] >>
  /\ pc' = "extracted"
  /\ UNCHANGED << pipeVars, promptVars, apiResponse >>

\* App.js 95 with azureService.js: extractTextFromAzureResponse(azureResponse)
CallExtractTextFromAzureResponse ==
  /\ pc = "ocr_returned"
  /\ extractedText' = << [by |-> "azureService.js",
                          call |-> extractTextFromAzureResponse(apiResponse)] >>
  /\ pc' = "extracted"
  /\ UNCHANGED << pipeVars, promptVars, apiResponse >>

\* App.js 95 with llmService.js.new in the place of azureService.js
CallExtractTextFromAzureResponseNew ==
  /\ pc = "ocr_returned"
  /\ extractedText' = << [by |-> "llmService.js.new",
                          call |-> extractTextFromAzureResponseNew(apiResponse)] >>
  /\ pc' = "extracted"
  /\ UNCHANGED << pipeVars, promptVars, apiResponse >>

NextExtract ==
  \/ CallExtractTextFromResult
  \/ CallExtractTextFromAzureResponse
  \/ CallExtractTextFromAzureResponseNew

SpecExtract == InitExtract /\ [][NextExtract]_vars

\* ============================================================== properties
PyPcs == {"py_read", "py_post", "py_get", "py_wait", "py_returned", "py_threw"}
GetPcs == {"py_get", "std_get", "new_get"}
WaitPcs == {"py_wait", "std_wait", "new_wait"}

\* The api-version of the i-th submit POST of the running
\* processWithAzurePython call.
PostVersion(i) == apiVersions[posts[i]].version

\* C1: when processWithAzurePython returns after candidates 1..k-1 failed
\* and candidate k's submit and poll succeeded, the submit POSTs went to
\* exactly candidates 1..k, in order and once each, the returned
\* analyzeResult is the one delivered by the job of candidate k, and no
\* submit POST follows in the upload.
C1_FirstSuccessReturned ==
  /\ pc = "py_returned" =>
       LET k == Len(outcomes) + 1
       IN /\ posts = [i \in 1..k |-> i]
          /\ attempts = k
          /\ returned[1].analyzeResult[1].job = k
          /\ returned[1].apiUrl = apiVersions[k].path
  /\ (ocrResult # <<>> /\ ocrResult[1].rawResponse.apiUrl # "") =>
       attempts = ocrResult[1].rawResponse.analyzeResult[1].job

C1_Witness ==
  /\ pc = "py_returned"
  /\ outcomes = << "non2xx", "poll-timeout" >>

\* Every submit POST of the running processWithAzurePython call so far was
\* answered with a non-2xx status.
AllNon2xx ==
  /\ outcomes # <<>>
  /\ \A i \in 1..Len(outcomes) : outcomes[i] = "non2xx"

\* C2: if every candidate's submit POST returns non-2xx, no polling GET is
\* issued at any point of the run and processWithAzurePython fails with the
\* all-candidates-failed error.
C2_AllNon2xxExhausted ==
  (pc \in {"py_post", "py_threw"} /\ AllNon2xx) =>
    /\ getTarget = 0
    /\ getsJob = 0
    /\ Len(outcomes) = Len(apiVersions) =>
         /\ pc = "py_threw"
         /\ thrown = << [kind |-> "non2xx", seq |-> Len(apiVersions),
                         wrap |-> << "py-all-failed", "py-error" >>] >>

C2_Witness ==
  /\ pc = "py_threw"
  /\ outcomes = << "non2xx", "non2xx", "non2xx", "non2xx" >>

\* C3: processWithAzurePython issues its submit POSTs newest API version
\* first: no POST has an older api-version than a later one, and the first
\* POST goes to the documentintelligence 2023-07-31 endpoint.
C3_NewestFirst ==
  pc \in PyPcs =>
    /\ \A i, j \in 1..Len(posts) : i < j => PostVersion(i) >= PostVersion(j)
    /\ posts # <<>> =>
         apiVersions[posts[1]].path = "documentintelligence/documentModels"

\* C4: in processWithAzurePython every per-candidate failure (network
\* error, non-2xx, missing operation-location, status failed, poll timeout,
\* rejected GET) is recorded as lastError and followed by the POST to the
\* next candidate while one remains; the call throws only after the last
\* candidate.
C4_EveryFailureMovesOn ==
  pc \in PyPcs =>
    /\ outcomes # <<>> =>
         lastError = << Err(outcomes[Len(outcomes)], Len(outcomes)) >>
    /\ pc = "py_post" =>
         /\ Len(posts) = Len(outcomes)
         /\ api = Len(outcomes) + 1
         /\ api <= Len(apiVersions)
    /\ pc \in {"py_get", "py_wait", "py_returned"} =>
         /\ Len(posts) = Len(outcomes) + 1
         /\ api = Len(posts)
    /\ (pc = "py_threw" /\ outcomes # <<>>) =>
         /\ Len(outcomes) = Len(apiVersions)
         /\ posts = << 1, 2, 3, 4 >>

C4_Witness ==
  /\ pc = "py_post"
  /\ api = 4
  /\ outcomes = << "poll-timeout", "job-failed", "noheader" >>

\* C5 (as claimed): once a polled job of the upload has reported status
\* failed, OCR for the upload fails and no further submit POST is issued.
C5_FailedIsFatal ==
  [][(failedSeen /\ uploads' = uploads) =>
       (attempts' = attempts /\ ocrResult' = <<>>)]_vars

\* C5 (amended): status failed ends only the candidate that reported it.
\* The failed job is never polled again and the orchestrator goes on to the
\* next candidate; it throws on a failed status only at its last candidate,
\* and the upload shows a job-failed OCR error only when the failed job was
\* the last one submitted in the upload.
C5_FailedEndsOnlyItsCandidate ==
  /\ failedAt # 0 => (getsJob = failedAt /\ pc \notin GetPcs \cup WaitPcs)
  /\ (pc = "py_post" /\ lastError # <<>> /\ lastError[1].kind = "job-failed") =>
       api = Len(posts) + 1
  /\ (pc = "py_threw" /\ thrown[1].kind = "job-failed") =>
       Len(posts) = Len(apiVersions)
  /\ (pc \in {"new_read", "new_post"} /\ lastError # <<>>
        /\ lastError[1].kind = "job-failed") =>
       api = posts[Len(posts)] + 1
  /\ (pc = "std_threw" /\ thrown[1].kind = "job-failed") =>
       /\ operationLocation = attempts
       /\ azureServiceFile = "llmService.js.new" =>
            posts[Len(posts)] = Len(apiFormats)
  /\ (error # <<>> /\ error[1].kind = "job-failed") =>
       /\ ocrResult = <<>>
       /\ failedAt # 0
       /\ operationLocation = attempts

C5_Witness ==
  /\ failedSeen
  /\ pc = "py_get"
  /\ attempts = 2
  /\ outcomes = << "job-failed" >>

\* The error shown is an OCR error (App.js 144).
IsOcrError(e) == e.wrap # <<>> /\ e.wrap[Len(e.wrap)] = "ocr-error"

\* C6: when every candidate fails, the error that a service call throws
\* and the OCR error shown to the user carry the last error raised in the
\* upload, not the first or an intermediate one.
C6_LastErrorSurfaced ==
  /\ pc \in {"py_threw", "std_threw"} => thrown[1].seq = raised
  /\ (pc = "py_threw" /\ outcomes # <<>>) =>
       /\ thrown[1].kind = outcomes[Len(outcomes)]
       /\ Len(outcomes) = Len(apiVersions)
  /\ (error # <<>> /\ IsOcrError(error[1])) => error[1].seq = raised

C6_Witness ==
  /\ error # <<>>
  /\ IsOcrError(error[1])
  /\ azureServiceFile = "llmService.js.new"
  /\ raised = Len(apiVersions) + Len(apiFormats)

\* C7: a polling loop that got 'running' on its first two GETs and
\* 'succeeded' on the third has returned that job's payload after exactly 3
\* GETs and at least 2 waits, and issues no further GET.
C7_ThirdGetSucceeds ==
  (succeededAt = 3 /\ ~sawOther) =>
    /\ getsJob = 3
    /\ waits >= 2
    /\ pc \in {"py_returned", "std_returned"}
    /\ returned # <<>>
    /\ returned[1].analyzeResult[1].job = operationLocation
    /\ getTarget = operationLocation

C7_Witness ==
  /\ pc = "py_returned"
  /\ succeededAt = 3
  /\ ~sawOther

\* maxRetries of the polling loop the upload is in.
MaxGets ==
  IF pc \in PyPcs THEN PyMaxRetries
  ELSE IF azureServiceFile = "azureService.js" THEN StdMaxRetries
  ELSE NewMaxRetries

\* The polling loop of the running call has ended with the timeout error.
TimedOut ==
  \/ /\ pc \in {"py_post", "py_threw", "new_read", "new_post"}
     /\ lastError # <<>>
     /\ lastError[1].kind = "poll-timeout"
  \/ /\ pc = "std_threw"
     /\ thrown[1].kind = "poll-timeout"

\* C8: a polling loop never issues more than maxRetries GETs (60, 30, 60),
\* it raises the timeout error after exactly maxRetries GETs, and it returns
\* a result only for a GET that reported succeeded.
C8_TimeoutAfterMaxGets ==
  /\ pc \in GetPcs => getsJob < MaxGets
  /\ pc \in WaitPcs \cup {"py_returned", "std_returned"} => getsJob <= MaxGets
  /\ TimedOut => (getsJob = MaxGets /\ succeededAt = 0 /\ returned = <<>>)
  /\ pc \in {"py_returned", "std_returned"} => succeededAt = getsJob

C8_Witness ==
  /\ pc = "py_threw"
  /\ lastError # <<>>
  /\ lastError[1].kind = "poll-timeout"
  /\ ~sawOther
  /\ getsJob = PyMaxRetries

\* C9: a polling GET is issued only on the operation location returned by
\* the submit POST of the running attempt, and never after a GET on that
\* location reported succeeded or failed.
C9_PollOnlyCreatedLiveJob ==
  /\ pc \in GetPcs \cup WaitPcs =>
       /\ operationLocation # 0
       /\ operationLocation = attempts
       /\ succeededAt = 0
       /\ failedAt = 0
  /\ getsJob > 0 => (getTarget # 0 /\ getTarget = operationLocation)
  /\ getTarget <= attempts
  /\ succeededAt # 0 => getsJob = succeededAt
  /\ failedAt # 0 => getsJob = failedAt

C9_Witness ==
  /\ pc = "std_returned"
  /\ succeededAt = 2
  /\ getTarget = attempts

\* C10: at most one job of the upload has been submitted and has not yet
\* reached a terminal status.
C10_AtMostOneActiveJob == nActive <= 1

\* The error the running OCR call raised last (lastError of an orchestrator,
\* the rejection of azureService.js processDocumentWithAzure).
LastRaised ==
  IF lastError # <<>> THEN lastError
  ELSE IF pc = "std_threw" THEN thrown
  ELSE <<>>

\* While the last submit POST of the running call is one answered 2xx
\* without an operation-location header, no job handle exists and no polling
\* GET has been, or is being, issued.
C11_NoPollingAfterNoHeader ==
  (lastPost = "noheader" /\ pc # "idle") =>
    /\ operationLocation = 0
    /\ getsJob = 0
    /\ pc \notin GetPcs \cup WaitPcs \cup {"py_returned", "std_returned"}

\* The step that receives such an answer raises the missing-job-location
\* error.
C11_NoHeaderRaises ==
  (attempts' = attempts + 1 /\ lastPost' = "noheader") =>
    /\ raised' = raised + 1
    /\ \/ LastRaised' = << Err("noheader", raised + 1) >>
       \/ LastRaised' = << Wrap(Err("noheader", raised + 1), "std-error") >>

\* C11: when a submit POST succeeds at the HTTP level but the response has
\* no operation-location header, the submit fails with the
\* missing-job-location error and no polling GET is issued for that
\* candidate.
C11_NoHeaderNoPolling ==
  [] C11_NoPollingAfterNoHeader /\ [][C11_NoHeaderRaises]_vars

C11_Witness ==
  /\ lastPost = "noheader"
  /\ pc = "std_threw"
  /\ azureServiceFile = "azureService.js"
  /\ attempts = Len(apiVersions) + 1

\* The candidates POSTed by the running processWithAzurePython call are
\* pairwise different, a candidate whose request failed at the HTTP layer
\* is behind the loop variable, and a location about to be polled for the
\* first time has never been the target of a GET.
C12_EachCandidateOnce ==
  pc \in PyPcs =>
    /\ \A i, j \in 1..Len(posts) : i < j => posts[i] < posts[j]
    /\ (pc = "py_post" /\ posts # <<>>) => api > posts[Len(posts)]
    /\ (pc = "py_get" /\ getsJob = 0) => getTarget < operationLocation

\* A polling GET of processWithAzurePython that is rejected at the HTTP
\* layer ends the polling of its operation location: what follows is the
\* submit POST to the next candidate, or the failure of the call.
C12_RejectedGetMovesOn ==
  (pc = "py_get" /\ raised' = raised + 1 /\ lastError'[1].kind = "geterr") =>
    /\ pc' \in {"py_post", "py_threw"}
    /\ pc' = "py_post" => api' = api + 1
    /\ pc' = "py_threw" => api = Len(apiVersions)

\* C12: within one run of processWithAzurePython each candidate receives at
\* most one submit POST, and a polling GET rejected at the HTTP layer is
\* followed by no further GET on the same operation location, only by the
\* submit to the next candidate.
C12_TransportFailureNotRetried ==
  [] C12_EachCandidateOnce /\ [][C12_RejectedGetMovesOn]_vars

C12_Witness ==
  /\ pc = "py_get"
  /\ outcomes = << "network", "geterr" >>
  /\ getsJob = 0
  /\ getTarget = 2
  /\ operationLocation = 3

\* C13: when the chat-completion endpoint answers 429 to the first two
\* POSTs and 200 (with a choice) to the third, the call goes on after each
\* 429, waits once between consecutive POSTs, and returns the first choice
\* of the third answer after exactly 3 POSTs and 2 waits.
C13_TwoRateLimitsThenSuccess ==
  /\ llmAnswers = << "429" >> =>
       /\ pc \in {"llm_wait", "llm_post"}
       /\ llmWaits = IF pc = "llm_wait" THEN 0 ELSE 1
  /\ llmAnswers = << "429", "429" >> =>
       /\ pc \in {"llm_wait", "llm_post"}
       /\ llmWaits = IF pc = "llm_wait" THEN 1 ELSE 2
  /\ (llmAnswers = << "429", "429", "200" >> /\ HasChoices(llmData[1])) =>
       /\ llmPosts = 3
       /\ llmWaits = 2
       /\ pc \in {"llm_returned", "idle"}
       /\ pc = "llm_returned" => llmReturned = << llmData[1].choices[1][1] >>
       /\ pc = "idle" => (llmResult = << llmData[1].choices[1][1] >> /\ error = <<>>)

C13_Witness ==
  /\ llmAnswers = << "429", "429", "200" >>
  /\ pc = "idle"
  /\ llmResult = << "M2" >>

\* The last answer to a chat-completion POST was a failure other than 429.
LlmOtherFailure ==
  /\ llmAnswers # <<>>
  /\ llmAnswers[Len(llmAnswers)] \in {"401", "404", "500", "noresponse"}

\* C14: a chat-completion POST that fails otherwise than by HTTP 429 is
\* not retried, on whichever attempt: the call has failed with that error,
\* no backoff wait and no POST follow it, and no LLM result is set.
C14_OtherFailureNotRetried ==
  LlmOtherFailure =>
    /\ pc \in {"llm_threw", "idle"}
    /\ llmPosts = Len(llmAnswers)
    /\ llmWaits = Len(llmAnswers) - 1
    /\ \A i \in 1..(Len(llmAnswers) - 1) : llmAnswers[i] = "429"
    /\ llmReturned = <<>>
    /\ pc = "llm_threw" => thrown[1].kind = llmAnswers[Len(llmAnswers)]
    /\ pc = "idle" =>
         /\ llmResult = <<>>
         /\ error # <<>>
         /\ error[1].kind = llmAnswers[Len(llmAnswers)]

C14_Witness ==
  /\ llmAnswers = << "429", "500" >>
  /\ pc = "llm_threw"

\* C15: on a 200 answer processWithAzureOpenAI returns the message content
\* of the first element of choices; when choices is missing or empty it
\* fails with an error instead of returning a value; in both cases no
\* further POST is issued.
C15_FirstChoiceOrError ==
  (llmAnswers # <<>> /\ llmAnswers[Len(llmAnswers)] = "200") =>
    /\ llmPosts = Len(llmAnswers)
    /\ IF llmData[1].choices # <<>> /\ llmData[1].choices[1] # <<>>
         THEN /\ pc \in {"llm_returned", "idle"}
              /\ pc = "llm_returned" =>
                   llmReturned = << Head(llmData[1].choices[1]) >>
              /\ pc = "idle" =>
                   (llmResult = << Head(llmData[1].choices[1]) >> /\ error = <<>>)
         ELSE /\ pc \in {"llm_threw", "idle"}
              /\ llmReturned = <<>>
              /\ pc = "llm_threw" => thrown[1].kind = "llm-unexpected-format"
              /\ pc = "idle" =>
                   /\ llmResult = <<>>
                   /\ error # <<>>
                   /\ error[1].kind = "llm-unexpected-format"

C15_Witness ==
  /\ pc = "llm_returned"
  /\ llmData = << [choices |-> << << "M2", "M1" >> >>] >>
  /\ llmReturned = << "M2" >>

C15_WitnessNoChoices ==
  /\ pc = "llm_threw"
  /\ llmData = << [choices |-> << <<>> >>] >>

\* The prompt contains the placeholder exactly once.
OnePlaceholder == Cardinality(Occurrences(prompt, Placeholder)) = 1

\* The prompt with text in the place of its first placeholder.
Spliced(text) ==
  LET pos == indexOf(prompt, Placeholder)
  IN SubSeq(prompt, 1, pos - 1) \o text
       \o SubSeq(prompt, pos + Len(Placeholder), Len(prompt))

\* C16: for a template that contains {{OCR_RESULT}} once and a text of at
\* most MAX_OCR_LENGTH characters, the user message is the template's part
\* before the token, the text, and the template's part after the token.
C16_PlaceholderSubstituted ==
  (pc = "llm_built" /\ OnePlaceholder /\ Len(ocrText) <= MAX_OCR_LENGTH) =>
    fullPrompt = << Spliced(ocrText) >>

\* What C16 says holds for every text without a $ followed by $, &, ` or '.
C16_WithoutDollarPatterns ==
  (/\ pc = "llm_built" /\ OnePlaceholder /\ Len(ocrText) <= MAX_OCR_LENGTH
   /\ \A i \in 1..(Len(ocrText) - 1) :
        ocrText[i] = "$" => ocrText[i + 1] \notin {"$", "&", "U+0060", "U+0027"}) =>
    fullPrompt = << Spliced(ocrText) >>

\* C17: an OCR text longer than MAX_OCR_LENGTH is substituted as its first
\* MAX_OCR_LENGTH characters followed by the truncation marker, so at most
\* MAX_OCR_LENGTH + marker length characters; a text of at most
\* MAX_OCR_LENGTH characters is substituted unchanged, without marker.
C17_Truncation ==
  pc = "llm_built" =>
    /\ Len(ocrText) > MAX_OCR_LENGTH =>
         /\ limitedOcrText = << SubSeq(ocrText, 1, MAX_OCR_LENGTH) \o TruncationMarker >>
         /\ Len(limitedOcrText[1]) = MAX_OCR_LENGTH + Len(TruncationMarker)
    /\ Len(ocrText) <= MAX_OCR_LENGTH => limitedOcrText = << ocrText >>
    /\ Len(limitedOcrText[1]) <= MAX_OCR_LENGTH + Len(TruncationMarker)
    /\ (OnePlaceholder /\ \A i \in 1..Len(ocrText) : ocrText[i] # "$") =>
         fullPrompt = << Spliced(limitedOcrText[1]) >>

C17_Witness ==
  /\ pc = "llm_built"
  /\ Len(ocrText) = MAX_OCR_LENGTH + 1
  /\ OnePlaceholder
  /\ Len(limitedOcrText[1]) = MAX_OCR_LENGTH + 25
  /\ limitedOcrText[1][MAX_OCR_LENGTH] = "b"
  /\ limitedOcrText[1][MAX_OCR_LENGTH + 1] = "\n"

\* The extractor was given a response with an analyzeResult.
HasResult == apiResponse # <<>> /\ apiResponse[1].analyzeResult # <<>>

\* That analyzeResult.
Analysis == apiResponse[1].analyzeResult[1]

\* The call was made by one of the two extractors of the running
\* application (azureServicePython.js, azureService.js).
ByAppExtractor ==
  /\ pc = "extracted"
  /\ extractedText[1].by \in {"azureServicePython.js", "azureService.js"}

\* C18: the text part of the output is the content field when there is one,
\* else the paragraph contents joined by a blank line; and whenever the
\* result has tables the rendered table section follows the text part, also
\* when content was used.
C18_TextPolicy ==
  (ByAppExtractor /\ HasResult) =>
    extractedText[1].call =
      Returns((IF Truthy(Analysis.content)
                 THEN Analysis.content[1]
                 ELSE ParagraphText(Analysis.paragraphs, << "\n", "\n" >>))
                \o TableSection(Analysis.tables).text)

\* The rows C19 describes for a cells list: (max rowIndex + 1) rows of
\* (max columnIndex + 1) entries, the content of the cell at the position or
\* the empty string, joined by " | " and ended by a newline.
ExpectedRows(cells) ==
  LET rows == Max({ cells[k].rowIndex : k \in 1..Len(cells) }) + 1
      cols == Max({ cells[k].columnIndex : k \in 1..Len(cells) }) + 1
      at(r, c) ==
        LET here == { k \in 1..Len(cells) :
                        cells[k].rowIndex = r /\ cells[k].columnIndex = c }
        IN IF here = {} THEN <<>> ELSE cells[CHOOSE k \in here : TRUE].content
      line(r) == Join([c \in 1..cols |-> at(r, c - 1)], << " ", "|", " " >>)
                   \o << "\n" >>
  IN Join([r \in 1..rows |-> line(r - 1)], <<>>)

\* Every table of the result has a cells list with at least one cell.
AllTablesHaveCells ==
  /\ Truthy(Analysis.tables)
  /\ \A k \in 1..Len(Analysis.tables[1]) : Truthy(Analysis.tables[1][k].cells)

\* C19: where the extractor renders the tables (always in azureService.js,
\* without a content field in azureServicePython.js), every table with at
\* least one cell is rendered as its title followed by the rows of the grid:
\* each cell's content at [rowIndex][columnIndex], the empty string
\* elsewhere, the entries of a row joined by " | " and a newline after each
\* row.
C19_TableRendering ==
  (/\ ByAppExtractor /\ HasResult /\ AllTablesHaveCells
   /\ extractedText[1].by = "azureServicePython.js" => ~Truthy(Analysis.content)) =>
    extractedText[1].call =
      Returns(ParagraphText(Analysis.paragraphs, << "\n", "\n" >>)
                \o TableSectionHeader
                \o Join([k \in 1..Len(Analysis.tables[1]) |->
                           TableTitle(k - 1)
                             \o ExpectedRows(Analysis.tables[1][k].cells[1])],
                        <<>>))

C19_Witness ==
  /\ pc = "extracted"
  /\ extractedText[1].by = "azureServicePython.js"
  /\ HasResult
  /\ Analysis.tables = << << [cells |-> << ExampleCells >>] >> >>
  /\ extractedText[1].call.text =
       TableSectionHeader \o TableTitle(0)
         \o << "A", " ", "|", " ", "\n", " ", "|", " ", "B", "\n" >>

\* The sections the extractor of the call reads are all missing or empty.
NothingToExtract ==
  /\ ~Truthy(Analysis.paragraphs)
  /\ ~Truthy(Analysis.tables)
  /\ extractedText[1].by # "azureService.js" => ~Truthy(Analysis.content)
  /\ extractedText[1].by = "llmService.js.new" => ~Truthy(Analysis.documents)

\* C20: an extractor call never throws, whichever of content, paragraphs,
\* tables and documents are missing or empty and also for a table whose
\* cells list is missing or empty; it returns the empty string for a
\* missing response or analyzeResult; and a missing section contributes
\* nothing: without tables the output is the text part alone, without text
\* part it is the table section alone, without anything it is empty.
C20_NeverThrows ==
  pc = "extracted" =>
    LET by == extractedText[1].by
        call == extractedText[1].call
    IN /\ ~call.threw
       /\ ~HasResult => call.text = <<>>
       /\ (HasResult /\ NothingToExtract) => call.text = <<>>
       /\ (HasResult /\ by # "llmService.js.new" /\ ~Truthy(Analysis.tables)) =>
            call.text = IF by = "azureServicePython.js" /\ Truthy(Analysis.content)
                          THEN Analysis.content[1]
                          ELSE ParagraphText(Analysis.paragraphs, << "\n", "\n" >>)
       /\ (HasResult /\ by # "llmService.js.new" /\ ~Truthy(Analysis.paragraphs)
             /\ ~(by = "azureServicePython.js" /\ Truthy(Analysis.content))) =>
            call.text = TableSection(Analysis.tables).text
       /\ (HasResult /\ by = "llmService.js.new") =>
            /\ ~Truthy(Analysis.tables) =>
                 call.text = NewTextSection(Analysis)
                               \o DocumentSection(Analysis.documents)
                               \o SelectionMarkSection(Analysis)
            /\ ~Truthy(Analysis.documents) =>
                 call.text = NewTextSection(Analysis)
                               \o NewTableSection(Analysis.tables).text
            /\ (~Truthy(Analysis.content) /\ ~Truthy(Analysis.paragraphs)) =>
                 call.text = DocumentSection(Analysis.documents)
                               \o NewTableSection(Analysis.tables).text
                               \o SelectionMarkSection(Analysis)

C20_Witness ==
  /\ pc = "extracted"
  /\ extractedText[1].by = "azureService.js"
  /\ HasResult
  /\ Analysis.content = <<>>
  /\ Analysis.paragraphs = <<>>
  /\ Analysis.documents = <<>>
  /\ Analysis.tables = << << [cells |-> <<>>] >> >>
  /\ extractedText[1].call = Returns(TableSectionHeader \o TableTitle(0))

\* The azureConfig of the session has its endpoint and its API key.
AzureConfigComplete == azureConfig.endpoint /\ azureConfig.apiKey

\* The upload has finished with OCR text and a prompt template, so that the
\* LLM step is what remains, and the llmConfig it read lacks the fields of
\* missing.
LlmStepWithout(missing) ==
  /\ pc = "idle"
  /\ ocrResult # <<>>
  /\ ocrResult[1].extractedText # <<>>
  /\ promptTemplate = << TRUE >>
  /\ llmConfig # <<>>
  /\ \E f \in missing : ~llmConfig[1][f]

\* No request was sent to the LLM and the error shown is the one of the
\* incomplete LLM configuration.
LlmConfigErrorShown ==
  /\ llmPosts = 0
  /\ error # <<>>
  /\ error[1].kind = "llm-config-incomplete"

\* No request was sent to the OCR service.
NoOcrRequest == attempts = 0 /\ getsJob = 0 /\ getTarget = 0

\* With an incomplete azureConfig no OCR request is sent and the finished
\* upload shows the configuration error.
OcrConfigErrorShown ==
  (uploads > 0 /\ ~AzureConfigComplete) =>
    /\ NoOcrRequest
    /\ pc = "idle" => (/\ error # <<>>
                       /\ error[1].kind = "std-config-incomplete"
                       /\ IsOcrError(error[1]))

\* C21: an upload processed with the OCR endpoint or API key missing sends
\* no request to the OCR service and shows an error for it; an upload whose
\* LLM step runs with the LLM endpoint, API key or deployment name missing
\* sends no request to the LLM and shows an error for it.
C21_IncompleteConfigReported ==
  /\ OcrConfigErrorShown
  /\ LlmStepWithout({"endpoint", "apiKey", "deploymentName"}) => LlmConfigErrorShown

\* What holds of C21: the same with the LLM endpoint left out of the fields
\* whose absence is reported.
C21_ReportedButMissingEndpoint ==
  /\ OcrConfigErrorShown
  /\ (LlmStepWithout({"apiKey", "deploymentName"}) /\ llmConfig[1].endpoint)
       => LlmConfigErrorShown
  /\ LlmStepWithout({"endpoint"}) => (llmPosts = 0 /\ error = <<>>)

\* The error shown is the one of catch (llmError) (App.js 138).
IsLlmError(e) == e.wrap # <<>> /\ e.wrap[Len(e.wrap)] = "llm-error"

\* C22: when handleFileUpload has finished with an LLM error, the UI state
\* still holds the OCR result, with the non-empty extracted text that was
\* handed to the LLM, next to the error; llmResult is empty.
C22_PartialResultKept ==
  (pc = "idle" /\ error # <<>> /\ IsLlmError(error[1])) =>
    /\ ocrResult # <<>>
    /\ ocrResult[1].extractedText # <<>>
    /\ ocrResult[1].extractedText = ocrText
    /\ ocrResult[1].rawResponse.analyzeResult # <<>>
    /\ llmResult = <<>>

C22_Witness ==
  /\ pc = "idle"
  /\ error # <<>>
  /\ IsLlmError(error[1])
  /\ error[1].kind = "500"
  /\ llmPosts = 1
  /\ ocrResult # <<>>
  /\ ocrResult[1].extractedText = << "P" >>

\* An upload is in flight exactly while isProcessing is true.
C23_InFlightIffProcessing == isProcessing <=> pc # "idle"

\* handleFileUpload starts only when no upload is in flight.
C23_StartsWhenIdle ==
  uploads' = uploads + 1 => (pc = "idle" /\ ~isProcessing /\ isProcessing')

\* C23: from the start of handleFileUpload (isProcessing true) until its
\* finally, the upload form starts no second handleFileUpload: an upload is
\* in flight exactly while isProcessing is true, and every start finds no
\* upload in flight, so at most one upload is processed at any time.
C23_OneUploadAtATime ==
  [] C23_InFlightIffProcessing /\ [][C23_StartsWhenIdle]_vars

C23_Witness ==
  /\ uploads = 1
  /\ uploads < MaxUploads
  /\ isProcessing
  /\ pc = "llm_post"
  /\ ~ENABLED StartUpload

\* processWithAzurePython has settled: its promise resolved or rejected.
PythonSettled == pc \in {"py_returned", "py_threw"}

\* One POST per candidate, in the order of the list, and at most
\* PyMaxRetries GETs for the job of the running candidate.
C24_Budget ==
  /\ Len(posts) <= Len(apiVersions)
  /\ \A i \in 1..Len(posts) : posts[i] = i
  /\ attempts = Len(posts)
  /\ getsJob <= PyMaxRetries
  /\ waits <= PyMaxRetries

\* C24: when every request, file read and timer eventually settles,
\* processWithAzurePython started by an upload always settles (result,
\* failure or timeout), after at most one POST per candidate (4) and at most
\* 60 polling GETs per submitted job.
C24_PythonTerminates ==
  [] C24_Budget /\ (isProcessing ~> PythonSettled)

C24_Witness ==
  /\ pc = "py_threw"
  /\ Len(posts) = Len(apiVersions)
  /\ getsJob = PyMaxRetries
  /\ thrown # <<>>
  /\ thrown[1].kind = "poll-timeout"

\* The chat-completion POST of the upload has been issued.
LlmRequestIssued == pc = "llm_post" \/ llmPosts > 0

\* The text the extractor paired with the returning implementation gives
\* for the response that implementation returned.
PairedExtraction ==
  IF pc = "py_returned"
    THEN extractTextFromResult(returned).text
    ELSE IF azureServiceFile = "azureService.js"
      THEN extractTextFromAzureResponse(returned).text
      ELSE extractTextFromAzureResponseNew(returned).text

\* Once the POST is issued the UI holds an OCR result whose non-empty
\* extracted text is the text given to the LLM; after a failed OCR, or with
\* an empty extracted text, no POST is issued.
C25_RequestHasOcrText ==
  /\ LlmRequestIssued =>
       /\ ocrResult # <<>>
       /\ ocrText # <<>>
       /\ ocrText = ocrResult[1].extractedText
  /\ (error # <<>> /\ IsOcrError(error[1])) => ~LlmRequestIssued
  /\ (ocrResult # <<>> /\ ocrResult[1].extractedText = <<>>) => ~LlmRequestIssued

\* The first POST is issued by the step that follows the return of an OCR
\* implementation whose last GET reported succeeded, with the text
\* extracted from the returned result; every later one follows a backoff
\* wait.
C25_IssuedAfterExtraction ==
  (pc' = "llm_post" /\ pc # "llm_post") =>
    \/ pc = "llm_wait"
    \/ /\ pc \in {"py_returned", "std_returned"}
       /\ lastStatus = "succeeded"
       /\ returned[1].analyzeResult[1].job = getTarget
       /\ ocrText' = PairedExtraction
       /\ ocrResult' = << [rawResponse |-> returned[1],
                           extractedText |-> PairedExtraction] >>

\* C25: the chat-completion POST is issued only after an OCR job of the
\* upload reached succeeded and its result went through the extractor, and
\* the text sent is the extracted text; no POST is issued when OCR failed or
\* the extracted text is empty.
C25_PipelineOrder ==
  [] C25_RequestHasOcrText /\ [][C25_IssuedAfterExtraction]_vars

C25_Witness ==
  /\ pc = "llm_post"
  /\ llmPosts = 0
  /\ ocrText = << "P" >>
  /\ ocrResult # <<>>
  /\ ocrResult[1].extractedText = << "P" >>
  /\ ocrResult[1].rawResponse.analyzeResult[1].content = << << "C" >> >>

\* processDocumentWithAzure (of either file) is running or has settled.
StdPcs ==
  {"std_post", "std_wait", "std_get", "new_test", "new_read", "new_post",
   "new_wait", "new_get", "std_returned", "std_threw"}

\* processDocumentWithAzure runs only after an error was raised in the
\* upload.
C26_FallbackAfterError == pc \in StdPcs => raised > 0

\* One step of handleFileUpload respects the fallback order.
C26_FallbackStep ==
  /\ uploads' = uploads + 1 => pc' \in {"py_read", "py_threw"}
  /\ (pc \notin StdPcs /\ pc' \in StdPcs) => pc = "py_threw"
  /\ (pc = "py_threw" /\ pc' # pc) => pc' \in StdPcs
  /\ (pc = "py_returned" /\ pc' # pc) => pc' \notin PyPcs \cup StdPcs
  /\ (error' # error /\ error' # <<>> /\ IsOcrError(error'[1])) =>
       (pc = "std_threw" /\ thrown # <<>> /\ error'[1].seq = thrown[1].seq)
  /\ (pc \in {"py_returned", "std_returned"} /\ pc' # pc) =>
       (/\ ocrResult' # <<>>
        /\ ocrResult'[1].rawResponse = returned[1]
        /\ ocrResult'[1].extractedText = PairedExtraction)

\* C26: handleFileUpload calls processWithAzurePython first, calls
\* processDocumentWithAzure if and only if processWithAzurePython threw,
\* shows an OCR error only when processDocumentWithAzure threw as well, and
\* extracts the text with the extractor paired with the implementation that
\* returned.
C26_ImplementationFallback ==
  [] C26_FallbackAfterError /\ [][C26_FallbackStep]_vars

C26_Witness ==
  /\ pc = "idle"
  /\ uploads = 1
  /\ raised > 0
  /\ error = <<>>
  /\ azureServiceFile = "azureService.js"
  /\ ocrResult # <<>>
  /\ ocrResult[1].rawResponse.apiUrl = ""
  /\ ocrResult[1].rawResponse.analyzeResult[1].content = << << "C" >> >>
  /\ ocrResult[1].extractedText = <<>>

\* The awaits handleFileUpload can be left from: OCR failed in both
\* implementations, OCR returned (the LLM step is skipped or throws before
\* its request), the LLM call returned or threw.
ExitPcs == {"std_threw", "py_returned", "std_returned", "llm_returned", "llm_threw"}

\* isProcessing is true exactly while handleFileUpload runs.
C27_ProcessingWhileRunning == isProcessing = (pc # "idle")

\* isProcessing is set by the start of handleFileUpload and cleared by the
\* step that leaves it, and by nothing else.
C27_SetAndCleared ==
  /\ (~isProcessing /\ isProcessing') => (uploads' = uploads + 1 /\ pc = "idle")
  /\ (isProcessing /\ ~isProcessing') => (pc \in ExitPcs /\ pc' = "idle")

\* C27: when every network request, file read and timer settles, every
\* started upload leaves the processing state, whichever way
\* handleFileUpload is left (OCR failed twice; LLM skipped, failed or
\* succeeded); isProcessing is true exactly from the start of
\* handleFileUpload to that point.
C27_UploadLeavesProcessing ==
  /\ [] C27_ProcessingWhileRunning
  /\ [][C27_SetAndCleared]_vars
  /\ isProcessing ~> ~isProcessing

C27_Witness ==
  /\ uploads = 1
  /\ pc = "idle"
  /\ ~isProcessing
  /\ llmPosts = LlmMaxRetries + 1
  /\ error # <<>>
  /\ IsLlmError(error[1])
  /\ raised > 1

\* The awaits of processWithAzureOpenAI and its settled states.
LlmPcs == {"llm_post", "llm_wait", "llm_returned", "llm_threw"}

\* C28: error, ocrResult and llmResult are empty from the start of
\* handleFileUpload through its whole OCR phase (so before its first
\* request); a non-empty llmResult comes with the ocrResult of the same
\* upload, whose text is the one the LLM of this upload was sent; and after
\* a failed OCR llmResult (and ocrResult) are empty.
C28_ResultsOfCurrentUpload ==
  /\ pc \in PyPcs \cup StdPcs =>
       (error = <<>> /\ ocrResult = <<>> /\ llmResult = <<>>)
  /\ pc \in LlmPcs =>
       (error = <<>> /\ ocrResult # <<>> /\ llmResult = <<>>)
  /\ llmResult # <<>> =>
       /\ pc = "idle"
       /\ ocrResult # <<>>
       /\ ocrResult[1].extractedText = ocrText
       /\ ocrResult[1].rawResponse.analyzeResult[1].job \in 1..attempts
       /\ llmPosts > 0
       /\ llmData # <<>>
       /\ HasChoices(llmData[1])
       /\ llmResult = << llmData[1].choices[1][1] >>
       /\ error = <<>>
  /\ (error # <<>> /\ IsOcrError(error[1])) =>
       (llmResult = <<>> /\ ocrResult = <<>>)

C28_Witness ==
  /\ uploads = 2
  /\ pc = "idle"
  /\ llmResult = << "M2" >>
  /\ ocrResult # <<>>
  /\ ocrResult[1].extractedText = << "C" >>

\* The step is the arrival of a GET response whose status is neither
\* succeeded nor failed nor running.
OtherStatusArrives == getsJob' = getsJob + 1 /\ lastStatus' = "notStarted"

\* The retry budget of the polling loop the upload is in.
LoopBudget == IF pc = "std_get" THEN StdMaxRetries ELSE NewMaxRetries

\* Such a GET gives no result and no job failure and leaves the job live;
\* in pollForResult the timer wait follows, which then counts the GET
\* (retryCount) and either issues the next GET or, the budget used up,
\* times out; in the loops of processDocumentWithAzure the GET is counted
\* at once (retries) and the next wait follows unless the budget is used up,
\* in which case the loop times out.
C29_OtherStatusStep ==
  /\ OtherStatusArrives =>
       /\ pc' \notin {"py_returned", "std_returned"}
       /\ returned' = returned
       /\ succeededAt' = succeededAt
       /\ failedAt' = failedAt
       /\ failedSeen' = failedSeen
       /\ nActive' = nActive
       /\ sawOther'
       /\ pc = "py_get" =>
            (pc' = "py_wait" /\ raised' = raised /\ thrown' = thrown)
       /\ pc \in {"std_get", "new_get"} =>
            /\ retries' = retries + 1
            /\ ~complete'
            /\ IF retries + 1 < LoopBudget
                 THEN /\ pc' = (IF pc = "std_get" THEN "std_wait" ELSE "new_wait")
                      /\ raised' = raised
                      /\ thrown' = thrown
                 ELSE /\ raised' = raised + 1
                      /\ pc = "std_get" => thrown'[1].kind = "poll-timeout"
                      /\ pc = "new_get" => lastError'[1].kind = "poll-timeout"
  /\ (pc = "py_wait" /\ pc' # pc /\ lastStatus = "notStarted") =>
       /\ retryCount' = retryCount + 1
       /\ retryCount' = getsJob
       /\ IF retryCount + 1 < PyMaxRetries
            THEN pc' = "py_get" /\ raised' = raised
            ELSE raised' = raised + 1 /\ lastError'[1].kind = "poll-timeout"

\* C29: in every polling loop a status other than succeeded and failed is
\* handled like a job still running: the GET counts toward the budget, the
\* wait follows and polling goes on while the budget lasts, and the GET
\* yields neither a result nor a job-failed error.
C29_OtherStatusIsRunning == [][C29_OtherStatusStep]_vars

C29_Witness ==
  /\ pc = "py_get"
  /\ lastStatus = "notStarted"
  /\ getsJob = 2
  /\ retryCount = 2
  /\ raised = 0
  /\ nActive = 1

\* The chat-completion POSTs issued in the upload: the answered ones and the
\* one in flight.
LlmPostsIssued == llmPosts + (IF pc = "llm_post" THEN 1 ELSE 0)

\* Every answer so far was HTTP 429.
AllRateLimited == \A i \in 1..Len(llmAnswers) : llmAnswers[i] = "429"

\* C30: processWithAzureOpenAI issues at most LlmMaxRetries + 1 = 3 POSTs
\* and makes at most LlmMaxRetries = 2 backoff waits, whatever the answers;
\* while every answer is 429 it keeps retrying up to the third POST, and the
\* third 429 ends the call with an error (3 POSTs, 2 waits), which
\* handleFileUpload shows.
C30_BoundedRateLimitRetry ==
  /\ LlmPostsIssued <= LlmMaxRetries + 1
  /\ llmWaits <= LlmMaxRetries
  /\ llmWaits <= llmRetryCount
  /\ llmRetryCount <= LlmMaxRetries
  /\ Len(llmAnswers) = llmPosts
  /\ (llmPosts > 0 /\ AllRateLimited) =>
       IF llmPosts <= LlmMaxRetries
         THEN /\ pc \in {"llm_wait", "llm_post"}
              /\ llmRetryCount = llmPosts
              /\ thrown = <<>>
              /\ error = <<>>
         ELSE /\ llmPosts = LlmMaxRetries + 1
              /\ llmWaits = LlmMaxRetries
              /\ llmResult = <<>>
              /\ \/ pc = "llm_threw" /\ thrown # <<>> /\ thrown[1].kind = "429"
                 \/ pc = "idle" /\ error # <<>> /\ IsLlmError(error[1])
                               /\ error[1].kind = "429"

C30_Witness ==
  /\ pc = "idle"
  /\ llmAnswers = << "429", "429", "429" >>
  /\ llmPosts = 3
  /\ llmWaits = 2
  /\ error # <<>>
  /\ error[1].kind = "429"

====
